---- MODULE Spec2Model ----
(***************************************************************************)
(* A model of CBForest's transactional document store (Database.cc) and of *)
(* its compact value encoding (DataWriter.cc, Data.cc).                    *)
(*                                                                         *)
(* Spec      threads beginning, using and destroying Transactions          *)
(* SpecSeq   one thread's transactions and what its operations return      *)
(* SpecRead  one thread's transactions plus reads through the Databases    *)
(* SpecEnum  one DocEnumerator over a store of documents                   *)
(* SpecData  one dataWriter encoding a value, read back with value         *)
(* SpecWrite one dataWriter called with any short series of values         *)
(* SpecDict  one dataWriter encoding a dict of dicts                       *)
(* SpecOpen  threads opening Databases: File::forPath                      *)
(* SpecValue the functions of value and dict called on any short region    *)
(* SpecErase one thread's transactions with deleteDatabase and erase        *)
(* SpecNested threads that also begin a Transaction inside their own        *)
(* SpecWake  a holder and two more threads, with the code's progress        *)
(***************************************************************************)
EXTENDS Integers, Sequences, FiniteSets, TLC

\* ------------------------------------------------------------------ bounds
NThreads == 2
MaxSeq == 2
\* The records the transactions of Spec write to a file.
MaxWrites == 1

Threads == 1..NThreads
Files == {1, 2}
DBs == {1, 2, 3}
Keys == {1, 2}
Bodies == {1, 2}
\* The Databases of SpecRead: both on file 1.
ReadDBs == {1, 2}

\* Database::Database: _file(File::forPath(path)). Databases 1 and 2 are opened
\* on the path of file 1, database 3 on the path of file 2.
DbFile(d) == IF d = 3 THEN 2 ELSE 1

\* fdb_status, as far as Database.cc tells the values apart.
FDB_RESULT_SUCCESS == "SUCCESS"
FDB_RESULT_KEY_NOT_FOUND == "KEY_NOT_FOUND"
FDB_RESULT_ITERATOR_FAIL == "ITERATOR_FAIL"
FDB_RESULT_FAIL == "FAIL"

NoSnap == -1
NoTx == 0

\* An fdb_handle*, as the pointer's holder finds it: the handle a Database was
\* opened with (or the one fdb_rollback replaced it by), a snapshot of it, a
\* pointer to a handle that has been closed since, or NULL.
RealHandle(d) == [kind |-> "real", db |-> d, snap |-> NoSnap]
SnapHandle(d, s) == [kind |-> "snap", db |-> d, snap |-> s]
StaleHandle(d) == [kind |-> "stale", db |-> d, snap |-> NoSnap]
NullHandle == [kind |-> "null", db |-> 0, snap |-> NoSnap]

VARIABLES
    observe,     \* whether the history variables seqHigh and last are kept
    private,     \* the build: TRANSACTION_IS_PRIVATE
    fileTx,      \* File::_transaction, per file (the owning thread, or NoTx)
    pc,          \* each thread's position
    tx,          \* each thread's Transaction object
    dbHandle,    \* DatabaseGetters::_handle, per Database
    log,         \* per file, the records in sequence order
    commits,     \* per file, the sequences at which a commit was made
    seqHigh,     \* per file, the highest sequence ever assigned (history)
    last,        \* what the last Transaction operation returned or threw
    lastRead,    \* what the last read through a Database returned or threw
    eStored,     \* the keys of the documents in the store that is enumerated
    enum,        \* the DocEnumerator
    writer,         \* the dataWriter: _out (bytes and write position),
                    \* _sharedStrings, _indexPos, _savedIndexPos
    externStrings,  \* dataWriter::_externStrings
    unset,          \* what a variable read before it is set holds
    dValue,         \* the value being encoded
    dTodo,          \* the calls still to make on the writer
    dDone,          \* the calls made, each with the offsets of _out around it
    rBuf,           \* the bytes a value pointer of the reader points into
    rGot,           \* the reader function last called and what it gave
    reg             \* File::sFileMap, File::sMutex and the threads in forPath

readerVars == <<rBuf, rGot>>

dataVars == <<writer, externStrings, unset, dValue, dTodo, dDone, readerVars>>

enumVars == <<eStored, enum>>

\* What the Transactions and the reads leave alone.
otherVars == <<enumVars, dataVars, reg>>

storeVars == <<observe, private, fileTx, pc, tx, dbHandle, log, commits,
               seqHigh, last, lastRead, reg>>

vars == <<storeVars, enumVars, dataVars>>

txVars == <<observe, private, fileTx, pc, tx, dbHandle, log, commits,
            seqHigh, last, otherVars>>

\* ------------------------------------------------------- the backing store
SetMax(S) == CHOOSE x \in S : \A y \in S : y <= x

LastSeq(f) == Len(log[f])
CommittedSeq(f) == SetMax(commits[f])

IsOpen(h) == h.kind \in {"real", "snap"}

\* The sequences a handle sees: a snapshot sees the file as of its sequence; a
\* handle sees what is committed and what was written through it.
Visible(h, f) ==
    IF h.kind = "snap"
    THEN {i \in 1..LastSeq(f) : i <= h.snap}
    ELSE {i \in 1..LastSeq(f) : i <= CommittedSeq(f) \/ log[f][i].by = h.db}

\* fdb_get_dbinfo(handle).last_seqnum
InfoLastSeq(h, f) == IF h.kind = "snap" THEN h.snap ELSE LastSeq(f)

NoDoc(k) == [key |-> k, seq |-> 0, body |-> 0, deleted |-> FALSE]

\* fdb_get(handle, doc): the status, and the document as the call leaves it.
FdbGet(h, f, k) ==
    LET S == {i \in Visible(h, f) : log[f][i].key = k}
        i == SetMax(S)
    IN  IF S = {} \/ log[f][i].deleted
        THEN [status |-> FDB_RESULT_KEY_NOT_FOUND, doc |-> NoDoc(k)]
        ELSE [status |-> FDB_RESULT_SUCCESS,
              doc |-> [key |-> k, seq |-> i, body |-> log[f][i].body,
                       deleted |-> FALSE]]

\* fdb_get_byseq(handle, doc)
FdbGetBySeq(h, f, s) ==
    IF s \in Visible(h, f)
    THEN [status |-> FDB_RESULT_SUCCESS,
          doc |-> [key |-> log[f][s].key, seq |-> s, body |-> log[f][s].body,
                   deleted |-> log[f][s].deleted]]
    ELSE [status |-> FDB_RESULT_KEY_NOT_FOUND,
          doc |-> [key |-> 0, seq |-> s, body |-> 0, deleted |-> FALSE]]

\* ------------------------------------------------------------ File::forPath
\* The File objects that can be constructed.
MaxFiles == 4

Paths == {1, 2}

\* What the Transactions, the reads, the enumerator and the writer hold.
notReg == <<observe, private, fileTx, pc, tx, dbHandle, log, commits, seqHigh,
            last, lastRead, enumVars, dataVars>>

\* A thread that is not constructing a Database.
NotOpening == [pc |-> "idle", path |-> 0, file |-> 0]

\* No File made, sFileMap empty (a missing entry and a NULL one are both 0),
\* sMutex free, no Database constructed.
NoReg ==
    [sMutex |-> 0, sFileMap |-> [p \in Paths |-> 0], made |-> 0,
     th |-> [t \in Threads |-> NotOpening], dbs |-> {}]

\* forPath taking sMutex whoever holds it.
forPath_lock_NoMutex(t, path) ==
    /\ reg.th[t].pc = "idle"
    /\ reg' = [reg EXCEPT !.sMutex = t,
                          !.th[t] = [pc |-> "locked", path |-> path, file |-> 0]]
    /\ UNCHANGED notReg

\* Database::Database(path) calls File::forPath(path), whose
\* std::unique_lock<std::mutex> lock(sMutex) waits until the mutex is free.
forPath_lock(t, path) ==
    /\ reg.th[t].pc = "idle"
    /\ reg.sMutex = 0
    /\ reg' = [reg EXCEPT !.sMutex = t,
                          !.th[t] = [pc |-> "locked", path |-> path, file |-> 0]]
    /\ UNCHANGED notReg

\* File* file = sFileMap[path];
forPath_find(t) ==
    /\ reg.th[t].pc = "locked"
    /\ reg' = [reg EXCEPT !.th[t].pc = "found",
                          !.th[t].file = reg.sFileMap[reg.th[t].path]]
    /\ UNCHANGED notReg

\* if (!file) { file = new File(); sFileMap[path] = file; }
forPath_create(t) ==
    /\ reg.th[t].pc = "found"
    /\ IF reg.th[t].file = 0
       THEN /\ reg.made < MaxFiles
            /\ reg' = [reg EXCEPT !.made = @ + 1,
                                  !.sFileMap[reg.th[t].path] = reg.made + 1,
                                  !.th[t].file = reg.made + 1,
                                  !.th[t].pc = "return"]
       ELSE reg' = [reg EXCEPT !.th[t].pc = "return"]
    /\ UNCHANGED notReg

\* return file; the lock's destructor releases sMutex, and _file is set.
forPath_return(t) ==
    /\ reg.th[t].pc = "return"
    /\ reg' = [reg EXCEPT !.sMutex = IF @ = t THEN 0 ELSE @,
                          !.th[t].pc = "opening"]
    /\ UNCHANGED notReg

\* Database::Database: check(::fdb_open(...)) returns, and the Database
\* exists with its _file, or throws, and it does not.
Database_open(t) ==
    /\ reg.th[t].pc = "opening"
    /\ \/ reg' = [reg EXCEPT !.th[t] = NotOpening,
                             !.dbs = @ \cup {[path |-> reg.th[t].path,
                                              file |-> reg.th[t].file]}]
       \/ reg' = [reg EXCEPT !.th[t] = NotOpening]
    /\ UNCHANGED notReg

\* -------------------------------------------------------------- Transaction
\* lastRead when the last operation was not a read: what a read returned is
\* looked at before the next operation.
NoRead == [op |-> "none", db |-> 0, arg |-> 0, threw |-> "none", ret |-> FALSE,
           doc |-> NoDoc(0), uncommitted |-> FALSE]

NoTransaction ==
    [db |-> 0, state |-> 0, handle |-> NullHandle, startSequence |-> 0,
     status |-> FDB_RESULT_SUCCESS, committed |-> FALSE, rolledBack |-> FALSE,
     entry |-> 0, unlink |-> "none"]

\* What an operation of thread t returned or threw: the sequence it returned,
\* the sequence it was called with.
Returned(t, op, seq) ==
    IF observe
    THEN [t |-> t, op |-> op, status |-> FDB_RESULT_SUCCESS, seq |-> seq, arg |-> 0]
    ELSE last
ThrewOn(t, op, st, arg) ==
    IF observe
    THEN [t |-> t, op |-> op, status |-> st, seq |-> 0, arg |-> arg]
    ELSE last
Threw(t, op, st) == ThrewOn(t, op, st, 0)

\* The highest sequence ever assigned, after seq has been.
High(f, seq) == IF observe /\ seq > seqHigh[f] THEN seq ELSE seqHigh[f]

\* A check without the test of line 360: every success makes the state dirty.
Transaction_check_Redirties(state, status) ==
    IF status = FDB_RESULT_SUCCESS THEN 1 ELSE -1

\* Transaction::check: the state the transaction is left in.
Transaction_check(state, status) ==
    IF status = FDB_RESULT_SUCCESS
    THEN (IF state = 0 THEN 1 ELSE state)
    ELSE -1

\* The threads blocked in _transactionCond.wait of file f.
Waiters(f) == {w \in DOMAIN pc : pc[w] = "waiting" /\ DbFile(tx[w].db) = f}

\* Database::beginTransaction from line 308 on, the slot being empty.
Acquire(t, d) ==
    LET f == DbFile(d)
        realHandle == dbHandle[d]
        startSequence == InfoLastSeq(realHandle, f)
        snapshot == SnapHandle(d, startSequence)
        fails ==
            /\ pc' = [pc EXCEPT ![t] = "idle"]
            /\ tx' = [tx EXCEPT ![t] = NoTransaction]
            /\ last' = Threw(t, "begin", FDB_RESULT_FAIL)
            /\ UNCHANGED <<fileTx, dbHandle>>
        installs ==
            /\ pc' = [pc EXCEPT ![t] = "active"]
            /\ tx' = [tx EXCEPT ![t] =
                        [NoTransaction EXCEPT !.db = d, !.handle = realHandle,
                                              !.startSequence = startSequence]]
            /\ fileTx' = [fileTx EXCEPT ![f] = t]
            /\ last' = Returned(t, "begin", 0)
    IN  \/ fails                             \* getInfo or fdb_snapshot_open throws
        \/ /\ IsOpen(realHandle)
           /\ IF private
              THEN /\ startSequence \in commits[f]
                   /\ dbHandle' = [dbHandle EXCEPT ![d] = snapshot]
                   /\ installs
              ELSE /\ installs
                   /\ UNCHANGED dbHandle

\* beginTransaction without its wait: the slot is taken whoever holds it.
beginTransaction_NoWait(t, d) == Acquire(t, d)

\* beginTransaction reading getInfo().last_seqnum before its wait instead of
\* after it: a thread that waited installs the sequence it read on entry.
beginTransaction_ReadsBeforeWait(t, d) ==
    LET f == DbFile(d)
        startSequence == IF pc[t] = "woken" THEN tx[t].startSequence
                         ELSE InfoLastSeq(dbHandle[d], f)
    IN  IF fileTx[f] # NoTx
        THEN /\ pc' = [pc EXCEPT ![t] = "waiting"]
             /\ tx' = [tx EXCEPT ![t] =
                         [NoTransaction EXCEPT !.db = d,
                                               !.startSequence = startSequence]]
             /\ UNCHANGED <<fileTx, dbHandle, last>>
        ELSE /\ IsOpen(dbHandle[d])
             /\ pc' = [pc EXCEPT ![t] = "active"]
             /\ tx' = [tx EXCEPT ![t] =
                         [NoTransaction EXCEPT !.db = d, !.handle = dbHandle[d],
                                               !.startSequence = startSequence]]
             /\ fileTx' = [fileTx EXCEPT ![f] = t]
             /\ dbHandle' = IF private
                             THEN [dbHandle EXCEPT ![d] = SnapHandle(d, startSequence)]
                             ELSE dbHandle
             /\ last' = Returned(t, "begin", 0)

\* Database::beginTransaction up to the wait: the mutex is taken and the slot
\* is looked at; the wait gives the mutex back.
beginTransaction(t, d) ==
    IF fileTx[DbFile(d)] # NoTx
    THEN /\ pc' = [pc EXCEPT ![t] = "waiting"]
         /\ tx' = [tx EXCEPT ![t] = [NoTransaction EXCEPT !.db = d]]
         /\ UNCHANGED <<fileTx, dbHandle, last>>
    ELSE Acquire(t, d)

\* Transaction::Transaction(db)
Transaction_new(t, d) ==
    /\ pc[t] = "idle"
    /\ beginTransaction(t, d)
    /\ UNCHANGED <<otherVars, observe, private, log, commits, seqHigh>>
    /\ lastRead' = NoRead

\* A waiter comes out of _transactionCond.wait (notified, or spuriously), has
\* the mutex again and tests the slot again.
WakeUp(t) ==
    /\ pc[t] = "woken"
    /\ beginTransaction(t, tx[t].db)
    /\ UNCHANGED <<otherVars, observe, private, log, commits, seqHigh>>
    /\ lastRead' = NoRead

SpuriousWakeUp(t) ==
    /\ pc[t] = "waiting"
    /\ pc' = [pc EXCEPT ![t] = "woken"]
    /\ UNCHANGED <<otherVars, observe, private, fileTx, tx, dbHandle, log, commits,
                   seqHigh, last>>
    /\ lastRead' = NoRead

\* Transaction::Transaction(db) on a thread whose own Transaction on the file of
\* db is alive: beginTransaction takes the mutex, finds the slot taken (by the
\* thread's own Transaction) and waits. The outer Transaction stays as it is.
Transaction_new_nested(t, d) ==
    /\ pc[t] = "active"
    /\ DbFile(d) = DbFile(tx[t].db)
    /\ fileTx[DbFile(d)] # NoTx
    /\ pc' = [pc EXCEPT ![t] = "nested_waiting"]
    /\ UNCHANGED <<otherVars, observe, private, fileTx, tx, dbHandle, log, commits,
                   seqHigh, last>>
    /\ lastRead' = NoRead

\* The nested beginTransaction comes out of the wait, notified or spuriously.
SpuriousWakeUp_nested(t) ==
    /\ pc[t] = "nested_waiting"
    /\ pc' = [pc EXCEPT ![t] = "nested_woken"]
    /\ UNCHANGED <<otherVars, observe, private, fileTx, tx, dbHandle, log, commits,
                   seqHigh, last>>
    /\ lastRead' = NoRead

\* It tests the slot again, line 305: taken, so it waits again.
WakeUp_nested(t) ==
    /\ pc[t] = "nested_woken"
    /\ fileTx[DbFile(tx[t].db)] # NoTx
    /\ pc' = [pc EXCEPT ![t] = "nested_waiting"]
    /\ UNCHANGED <<otherVars, observe, private, fileTx, tx, dbHandle, log, commits,
                   seqHigh, last>>
    /\ lastRead' = NoRead

\* fdb_rollback(&handle, seq) when it succeeds: the file is cut back to seq and
\* the handle is replaced by a new one, the old one being closed: every other
\* pointer to the old one dangles.
RolledBack(h, f, s) ==
    [handle |-> RealHandle(h.db),
     dbHandle |-> [d \in DBs |-> IF dbHandle[d] = h THEN StaleHandle(h.db)
                                 ELSE dbHandle[d]],
     log |-> SubSeq(log[f], 1, s),
     commits |-> {c \in commits[f] : c <= s}]

CanRollback(h, f, s) == IsOpen(h) /\ s \in commits[f]

\* A set that writes over the file's last record instead of after it.
Transaction_set_Overwrites(t, k, b) ==
    /\ pc[t] = "active"
    /\ LET T == tx[t]
           f == DbFile(T.db)
           seq == IF LastSeq(f) = 0 THEN 1 ELSE LastSeq(f)
       IN  \/ /\ IsOpen(T.handle)
              /\ seq <= MaxSeq
              /\ log' = [log EXCEPT ![f] =
                     Append(SubSeq(@, 1, seq - 1),
                            [key |-> k, body |-> b, deleted |-> FALSE,
                             by |-> T.handle.db])]
              /\ seqHigh' = [seqHigh EXCEPT ![f] = High(f, seq)]
              /\ tx' = [tx EXCEPT ![t].state =
                           Transaction_check(@, FDB_RESULT_SUCCESS)]
              /\ last' = Returned(t, "set", seq)
           \/ /\ tx' = [tx EXCEPT ![t].state =
                           Transaction_check(@, FDB_RESULT_FAIL)]
              /\ last' = Threw(t, "set", FDB_RESULT_FAIL)
              /\ UNCHANGED <<log, seqHigh>>
    /\ UNCHANGED <<otherVars, observe, private, fileTx, pc, dbHandle, commits>>
    /\ lastRead' = NoRead

\* Transaction::write / Transaction::set
Transaction_set(t, k, b) ==
    /\ pc[t] = "active"
    /\ LET T == tx[t]
           f == DbFile(T.db)
           seq == LastSeq(f) + 1
       IN  \/ /\ IsOpen(T.handle)
              /\ seq <= MaxSeq
              /\ log' = [log EXCEPT ![f] = Append(@,
                     [key |-> k, body |-> b, deleted |-> FALSE, by |-> T.handle.db])]
              /\ seqHigh' = [seqHigh EXCEPT ![f] = High(f, seq)]
              /\ tx' = [tx EXCEPT ![t].state =
                           Transaction_check(@, FDB_RESULT_SUCCESS)]
              /\ last' = Returned(t, "set", seq)
           \/ /\ tx' = [tx EXCEPT ![t].state =
                           Transaction_check(@, FDB_RESULT_FAIL)]
              /\ last' = Threw(t, "set", FDB_RESULT_FAIL)
              /\ UNCHANGED <<log, seqHigh>>
    /\ UNCHANGED <<otherVars, observe, private, fileTx, pc, dbHandle, commits>>
    /\ lastRead' = NoRead

\* Transaction::del(sequence): DatabaseGetters::get(sequence) through the
\* Database's handle, then Transaction::del(doc) through the transaction's.
Transaction_del(t, s) ==
    /\ pc[t] = "active"
    /\ LET T == tx[t]
           f == DbFile(T.db)
           got == FdbGetBySeq(dbHandle[T.db], f, s)
           seq == LastSeq(f) + 1
       IN  \/ \E st \in {got.status, FDB_RESULT_FAIL} :
                /\ st # FDB_RESULT_SUCCESS      \* forestdb::check throws
                /\ last' = ThrewOn(t, "del", st, s)
                /\ UNCHANGED <<tx, log, seqHigh>>
           \/ /\ got.status = FDB_RESULT_SUCCESS
              /\ \/ /\ IsOpen(T.handle)
                    /\ seq <= MaxSeq
                    /\ log' = [log EXCEPT ![f] = Append(@,
                           [key |-> got.doc.key, body |-> 0, deleted |-> TRUE,
                            by |-> T.handle.db])]
                    /\ seqHigh' = [seqHigh EXCEPT ![f] = High(f, seq)]
                    /\ tx' = [tx EXCEPT ![t].state =
                                 Transaction_check(@, FDB_RESULT_SUCCESS)]
                    /\ last' = Returned(t, "del", 0)
                 \/ /\ tx' = [tx EXCEPT ![t].state =
                                 Transaction_check(@, FDB_RESULT_FAIL)]
                    /\ last' = ThrewOn(t, "del", FDB_RESULT_FAIL, s)
                    /\ UNCHANGED <<log, seqHigh>>
    /\ UNCHANGED <<otherVars, observe, private, fileTx, pc, dbHandle, commits>>
    /\ lastRead' = NoRead

\* Transaction::rollbackTo
Transaction_rollbackTo(t, s) ==
    /\ pc[t] = "active"
    /\ LET T == tx[t]
           f == DbFile(T.db)
           r == RolledBack(T.handle, f, s)
       IN  \/ /\ CanRollback(T.handle, f, s)
              /\ log' = [log EXCEPT ![f] = r.log]
              /\ commits' = [commits EXCEPT ![f] = r.commits]
              /\ dbHandle' = r.dbHandle
              /\ tx' = [tx EXCEPT ![t].handle = r.handle,
                                  ![t].state =
                                      Transaction_check(@, FDB_RESULT_SUCCESS)]
              /\ last' = Returned(t, "rollbackTo", 0)
           \/ /\ tx' = [tx EXCEPT ![t].state =
                           Transaction_check(@, FDB_RESULT_FAIL)]
              /\ last' = Threw(t, "rollbackTo", FDB_RESULT_FAIL)
              /\ UNCHANGED <<log, commits, dbHandle>>
    /\ UNCHANGED <<otherVars, observe, private, fileTx, pc, seqHigh>>
    /\ lastRead' = NoRead

\* Transaction::commit
Transaction_commit(t) ==
    /\ pc[t] = "active"
    /\ LET T == tx[t]
           f == DbFile(T.db)
       IN  \/ /\ IsOpen(T.handle)
              /\ commits' = [commits EXCEPT ![f] = @ \cup {LastSeq(f)}]
              /\ tx' = [tx EXCEPT ![t].state =
                           Transaction_check(@, FDB_RESULT_SUCCESS)]
              /\ last' = Returned(t, "commit", 0)
           \/ /\ tx' = [tx EXCEPT ![t].state =
                           Transaction_check(@, FDB_RESULT_FAIL)]
              /\ last' = Threw(t, "commit", FDB_RESULT_FAIL)
              /\ UNCHANGED commits
    /\ UNCHANGED <<otherVars, observe, private, fileTx, pc, dbHandle, log, seqHigh>>
    /\ lastRead' = NoRead

\* What throw(errno) throws: an int, not an fdb_status.
Errno == "errno"

\* ::unlink(path): the file is removed, there was none (ENOENT), or it fails.
UnlinkResults == {"removed", "ENOENT", "failed"}

\* Transaction::deleteDatabase on the Transaction T of a Database whose own
\* handle is dbh. infoOk: getInfo succeeds on an open handle; closeOk:
\* fdb_close does; unlink: what ::unlink does; reopenOk: fdb_open does; marks:
\* line 373 is there. Gives the state and handle T is left with, what was
\* thrown, whether T's handle was closed and whether the file is gone.
deleteDatabase(T, dbh, marks, infoOk, closeOk, unlink, reopenOk) ==
    LET out(state, handle, u, threw, closed) ==
            [state |-> state, handle |-> handle, unlink |-> u, threw |-> threw,
             closed |-> closed, removed |-> u = "removed"]
        closeSt == IF closeOk /\ IsOpen(T.handle) THEN FDB_RESULT_SUCCESS
                   ELSE FDB_RESULT_FAIL
        s1 == Transaction_check(T.state, closeSt)
        s2 == IF marks THEN -1 ELSE s1
        openSt == IF reopenOk THEN FDB_RESULT_SUCCESS ELSE FDB_RESULT_FAIL
        s3 == Transaction_check(s2, openSt)
    IN  IF ~(infoOk /\ IsOpen(dbh))           \* _db.filename() throws
        THEN out(T.state, T.handle, "none", FDB_RESULT_FAIL, FALSE)
        ELSE IF closeSt # FDB_RESULT_SUCCESS  \* check(::fdb_close(_handle))
        THEN out(s1, T.handle, "none", FDB_RESULT_FAIL, FALSE)
        ELSE IF unlink # "failed"
        THEN out(s1, NullHandle, unlink, "none", TRUE)
        ELSE IF openSt # FDB_RESULT_SUCCESS   \* check(::fdb_open(...)) throws
        THEN out(s3, NullHandle, unlink, FDB_RESULT_FAIL, TRUE)
        ELSE out(s3, RealHandle(T.db), unlink, Errno, TRUE)

\* Transaction::erase: deleteDatabase, then check(::fdb_open(...)).
erase(T, dbh, infoOk, closeOk, unlink, reopenOk, openOk) ==
    LET r == deleteDatabase(T, dbh, TRUE, infoOk, closeOk, unlink, reopenOk)
        openSt == IF openOk THEN FDB_RESULT_SUCCESS ELSE FDB_RESULT_FAIL
    IN  IF r.threw # "none" THEN r
        ELSE [r EXCEPT !.state = Transaction_check(@, openSt),
                       !.handle = IF openOk THEN RealHandle(T.db) ELSE @,
                       !.threw = IF openOk THEN "none" ELSE openSt]

\* The Transaction, its file and the handles after deleteDatabase or erase did
\* r: a closed handle leaves every other pointer to it dangling, a removed file
\* is a new, empty one when it is opened again.
Erased(t, op, r) ==
    LET T == tx[t]
        f == DbFile(T.db)
    IN  /\ tx' = [tx EXCEPT ![t].state = r.state, ![t].handle = r.handle,
                            ![t].unlink = r.unlink]
        /\ dbHandle' = IF r.closed
                        THEN [d \in DBs |-> IF dbHandle[d] = T.handle
                                            THEN StaleHandle(T.handle.db)
                                            ELSE dbHandle[d]]
                        ELSE dbHandle
        /\ log' = IF r.removed THEN [log EXCEPT ![f] = <<>>] ELSE log
        /\ commits' = IF r.removed THEN [commits EXCEPT ![f] = {0}] ELSE commits
        /\ last' = IF r.threw = "none" THEN Returned(t, op, 0)
                    ELSE Threw(t, op, r.threw)
        /\ UNCHANGED <<otherVars, observe, private, fileTx, pc, seqHigh>>
        /\ lastRead' = NoRead

\* A deleteDatabase without line 373: the state is left to check().
Transaction_deleteDatabase_NoMark(t) ==
    /\ pc[t] = "active"
    /\ \E infoOk, closeOk, reopenOk \in BOOLEAN, unlink \in UnlinkResults :
          Erased(t, "deleteDatabase",
                 deleteDatabase(tx[t], dbHandle[tx[t].db], FALSE, infoOk, closeOk,
                                unlink, reopenOk))

Transaction_deleteDatabase(t) ==
    /\ pc[t] = "active"
    /\ \E infoOk, closeOk, reopenOk \in BOOLEAN, unlink \in UnlinkResults :
          Erased(t, "deleteDatabase",
                 deleteDatabase(tx[t], dbHandle[tx[t].db], TRUE, infoOk, closeOk,
                                unlink, reopenOk))

Transaction_erase(t) ==
    /\ pc[t] = "active"
    /\ \E infoOk, closeOk, reopenOk, openOk \in BOOLEAN,
          unlink \in UnlinkResults :
          Erased(t, "erase",
                 erase(tx[t], dbHandle[tx[t].db], infoOk, closeOk, unlink,
                       reopenOk, openOk))

\* A destructor that commits whatever was written, failed or not.
DtorCommit_CommitsFailed(t, commitStatus, rollbackOk) ==
    LET T == tx[t]
        f == DbFile(T.db)
        commit == T.state # 0
        status == IF commit THEN commitStatus ELSE FDB_RESULT_SUCCESS
        state == IF commit /\ status # FDB_RESULT_SUCCESS THEN -1 ELSE T.state
        rollback == state < 0 /\ ~commit
        r == RolledBack(T.handle, f, T.startSequence)
        cut == rollback /\ rollbackOk
        committed == IF commit /\ status = FDB_RESULT_SUCCESS
                     THEN commits[f] \cup {LastSeq(f)} ELSE commits[f]
    IN  /\ commit /\ status = FDB_RESULT_SUCCESS => IsOpen(T.handle)
        /\ cut => CanRollback(T.handle, f, T.startSequence)
        /\ log' = [log EXCEPT ![f] = IF cut THEN r.log ELSE @]
        /\ commits' = [commits EXCEPT ![f] = IF cut THEN r.commits ELSE committed]
        /\ dbHandle' = IF cut THEN r.dbHandle ELSE dbHandle
        /\ tx' = [tx EXCEPT ![t] =
                    [T EXCEPT !.state = state, !.status = status,
                              !.handle = IF cut THEN r.handle ELSE T.handle,
                              !.committed = commit,
                              !.rolledBack = rollback,
                              !.entry = T.state]]

\* Transaction::~Transaction, lines 346-353: the commit and the rollback.
\* commitStatus is what fdb_commit returns, rollbackOk whether fdb_rollback
\* succeeds; either is only used where the destructor makes the call.
DtorCommit(t, commitStatus, rollbackOk) ==
    LET T == tx[t]
        f == DbFile(T.db)
        commit == T.state > 0
        status == IF commit THEN commitStatus ELSE FDB_RESULT_SUCCESS
        state == IF commit /\ status # FDB_RESULT_SUCCESS THEN -1 ELSE T.state
        rollback == state < 0
        r == RolledBack(T.handle, f, T.startSequence)
        cut == rollback /\ rollbackOk
        committed == IF commit /\ status = FDB_RESULT_SUCCESS
                     THEN commits[f] \cup {LastSeq(f)} ELSE commits[f]
    IN  /\ commit /\ status = FDB_RESULT_SUCCESS => IsOpen(T.handle)
        /\ cut => CanRollback(T.handle, f, T.startSequence)
        /\ log' = [log EXCEPT ![f] = IF cut THEN r.log ELSE @]
        /\ commits' = [commits EXCEPT ![f] = IF cut THEN r.commits ELSE committed]
        /\ dbHandle' = IF cut THEN r.dbHandle ELSE dbHandle
        /\ tx' = [tx EXCEPT ![t] =
                    [T EXCEPT !.state = state, !.status = status,
                              !.handle = IF cut THEN r.handle ELSE T.handle,
                              !.committed = commit,
                              !.rolledBack = rollback,
                              !.entry = T.state]]

Transaction_dtor(t) ==
    /\ pc[t] = "active"
    /\ \E commitStatus \in {FDB_RESULT_SUCCESS, FDB_RESULT_FAIL},
          rollbackOk \in BOOLEAN :
            DtorCommit(t, commitStatus, rollbackOk)
    /\ pc' = [pc EXCEPT ![t] = "dtor_end"]
    /\ UNCHANGED <<otherVars, observe, private, fileTx, seqHigh, last>>
    /\ lastRead' = NoRead

\* endTransaction keeping the slot of a transaction that failed.
endTransaction_KeepsFailed(t, d, handle) ==
    LET f == DbFile(d)
    IN  /\ IF private /\ handle = dbHandle[d]
           THEN UNCHANGED dbHandle
           ELSE dbHandle' = [dbHandle EXCEPT ![d] = handle]
        /\ fileTx' = IF tx[t].state < 0 THEN fileTx
                      ELSE [fileTx EXCEPT ![f] = NoTx]
        /\ IF Waiters(f) = {}
           THEN pc' = [pc EXCEPT ![t] = "dtor_check"]
           ELSE \E w \in Waiters(f) :
                    pc' = [pc EXCEPT ![t] = "dtor_check", ![w] = "woken"]

\* Database::endTransaction(handle), called at line 354. notify_one wakes one of
\* the threads waiting on the file's condition variable, if there is one.
endTransaction(t, d, handle) ==
    LET f == DbFile(d)
    IN  /\ IF private /\ handle = dbHandle[d]
           THEN UNCHANGED dbHandle
           ELSE dbHandle' = [dbHandle EXCEPT ![d] = handle]
        /\ fileTx' = [fileTx EXCEPT ![f] = NoTx]
        /\ IF Waiters(f) = {}
           THEN pc' = [pc EXCEPT ![t] = "dtor_check"]
           ELSE \E w \in Waiters(f) :
                    pc' = [pc EXCEPT ![t] = "dtor_check", ![w] = "woken"]

Transaction_dtor_end(t) ==
    /\ pc[t] = "dtor_end"
    /\ endTransaction(t, tx[t].db, tx[t].handle)
    /\ UNCHANGED <<otherVars, observe, private, tx, log, commits, seqHigh, last>>
    /\ lastRead' = NoRead

\* Transaction::~Transaction, line 355: check(status) throws the commit error.
Transaction_dtor_check(t) ==
    /\ pc[t] = "dtor_check"
    /\ pc' = [pc EXCEPT ![t] = "idle"]
    /\ last' = IF tx[t].status = FDB_RESULT_SUCCESS
                THEN Returned(t, "dtor", 0) ELSE Threw(t, "dtor", tx[t].status)
    /\ tx' = [tx EXCEPT ![t] = NoTransaction]
    /\ UNCHANGED <<otherVars, observe, private, fileTx, dbHandle, log, commits, seqHigh>>
    /\ lastRead' = NoRead

\* --------------------------------------------------------------------- reads
\* checkGet: FALSE for key-not-found, TRUE for success, otherwise it throws.
checkGet(status) == status # FDB_RESULT_KEY_NOT_FOUND

\* forestdb::check: the status thrown, or "none".
check(status) == IF status = FDB_RESULT_SUCCESS THEN "none" ELSE status

\* DatabaseGetters::read(doc)
DatabaseGetters_read(d, k) ==
    LET f == DbFile(d)
        got == FdbGet(dbHandle[d], f, k)
    IN  \E st \in {got.status, FDB_RESULT_FAIL} :
          lastRead' =
            [op |-> "read", db |-> d, arg |-> k,
             threw |-> IF checkGet(st) THEN check(st) ELSE "none",
             ret |-> checkGet(st) /\ check(st) = "none",
             doc |-> IF st = got.status THEN got.doc ELSE NoDoc(k),
             uncommitted |-> st = FDB_RESULT_SUCCESS /\ got.doc.seq > CommittedSeq(f)]

\* DatabaseGetters::get(key): Document doc(key); read(doc); return doc.
DatabaseGetters_get(d, k) ==
    LET f == DbFile(d)
        got == FdbGet(dbHandle[d], f, k)
    IN  \E st \in {got.status, FDB_RESULT_FAIL} :
          lastRead' =
            [op |-> "get", db |-> d, arg |-> k,
             threw |-> IF checkGet(st) THEN check(st) ELSE "none",
             ret |-> FALSE,
             doc |-> IF st = got.status THEN got.doc ELSE NoDoc(k),
             uncommitted |-> st = FDB_RESULT_SUCCESS /\ got.doc.seq > CommittedSeq(f)]

\* DatabaseGetters::get(sequence): the status goes through check, not checkGet.
DatabaseGetters_getSeq(d, s) ==
    LET f == DbFile(d)
        got == FdbGetBySeq(dbHandle[d], f, s)
    IN  \E st \in {got.status, FDB_RESULT_FAIL} :
          lastRead' =
            [op |-> "getSeq", db |-> d, arg |-> s,
             threw |-> check(st),
             ret |-> FALSE,
             doc |-> IF st = got.status THEN got.doc
                     ELSE [key |-> 0, seq |-> s, body |-> 0, deleted |-> FALSE],
             uncommitted |-> st = FDB_RESULT_SUCCESS /\ s > CommittedSeq(f)]

Read(d, k) == DatabaseGetters_read(d, k) /\ UNCHANGED txVars
Get(d, k) == DatabaseGetters_get(d, k) /\ UNCHANGED txVars
GetSeq(d, s) == DatabaseGetters_getSeq(d, s) /\ UNCHANGED txVars

\* ------------------------------------------------------------ DocEnumerator
MaxKey == 3
MaxIDs == 2

\* Document IDs, in the order std::sort and the store both keep them in.
EnumKeys == 1..MaxKey

SetMin(S) == CHOOSE x \in S : \A y \in S : x <= y

RECURSIVE Insert(_, _)
Insert(x, s) ==
    IF s = <<>> THEN <<x>>
    ELSE IF x <= Head(s) THEN <<x>> \o s
    ELSE <<Head(s)>> \o Insert(x, Tail(s))

\* std::sort(docIDs.begin(), docIDs.end())
RECURSIVE Sort(_)
Sort(s) == IF s = <<>> THEN <<>> ELSE Insert(Head(s), Sort(Tail(s)))

\* _docP: NULL, a document of the store, or the document fdb_doc_create makes
\* from a docID with no meta and no body.
NullDoc == [key |-> 0, real |-> FALSE]
StoredDoc(k) == [key |-> k, real |-> TRUE]
Placeholder(k) == [key |-> k, real |-> FALSE]

\* The enumerator before enumerate() has made one.
NoEnum ==
    [kind |-> "none", iter |-> "null", cursor |-> 0, end |-> 0, req |-> <<>>,
     docIDs |-> <<>>, cur |-> 1, docP |-> NullDoc, ret |-> "none",
     lastID |-> 0, yield |-> <<>>, ioError |-> FALSE]

\* The keys the backing iterator has yet to return.
Ahead(cursor, end) == {k \in eStored : k >= cursor /\ k <= end}

\* The statuses fdb_iterator_next can return at a position.
NextStatuses(cursor, end) ==
    IF Ahead(cursor, end) # {}
    THEN {FDB_RESULT_SUCCESS, FDB_RESULT_FAIL}
    ELSE {FDB_RESULT_ITERATOR_FAIL, FDB_RESULT_FAIL}

\* The statuses fdb_iterator_seek can return for a key: with no key at or
\* after it, the store either positions the iterator at the end or reports
\* FDB_RESULT_ITERATOR_FAIL.
SeekStatuses(e, docID) ==
    IF Ahead(docID, e.end) # {}
    THEN {FDB_RESULT_SUCCESS, FDB_RESULT_FAIL}
    ELSE {FDB_RESULT_SUCCESS, FDB_RESULT_ITERATOR_FAIL, FDB_RESULT_FAIL}

\* A close that frees the document and leaves the iterator open.
close_LeavesIterator(e) == [e EXCEPT !.docP = NullDoc]

\* DocEnumerator::close
close(e) == [e EXCEPT !.docP = NullDoc, !.iter = "null"]

\* check(status) at line 258: the error is thrown, or next() returns true.
Checked(e, status) ==
    IF status = FDB_RESULT_SUCCESS
    THEN [e EXCEPT !.ret = "true", !.yield = Append(@, e.docP)]
    ELSE [e EXCEPT !.ret = "threw"]

Failed(e, st) == [e EXCEPT !.ioError = @ \/ st = FDB_RESULT_FAIL]

\* DocEnumerator::next, seekSt and nextSt being what fdb_iterator_seek and
\* fdb_iterator_next return where next() calls them.
next(e, seekSt, nextSt) ==
    IF e.iter = "null" THEN [e EXCEPT !.ret = "false", !.lastID = 0]
    ELSE
    LET e1 == [e EXCEPT !.docP = NullDoc, !.lastID = 0]
    IN  IF Len(e.docIDs) = 0
        THEN \* Regular iteration
             IF nextSt = FDB_RESULT_ITERATOR_FAIL
             THEN [close(e1) EXCEPT !.ret = "false"]
             ELSE IF nextSt = FDB_RESULT_SUCCESS
             THEN LET k == SetMin(Ahead(e.cursor, e.end))
                  IN  Checked([e1 EXCEPT !.docP = StoredDoc(k), !.cursor = k + 1],
                              nextSt)
             ELSE Checked(Failed(e1, nextSt), nextSt)
        ELSE \* Iterating over a vector of docIDs
             IF e.cur > Len(e.docIDs)
             THEN [close(e1) EXCEPT !.ret = "false"]
             ELSE
             LET docID == e.docIDs[e.cur]
                 e2 == [e1 EXCEPT !.cur = @ + 1, !.lastID = docID]
             IN  IF seekSt = FDB_RESULT_SUCCESS
                 THEN LET found == nextSt = FDB_RESULT_SUCCESS
                          k == IF found THEN SetMin(Ahead(docID, e.end)) ELSE 0
                          e3 == [e2 EXCEPT !.cursor = IF found THEN k + 1 ELSE docID]
                      IN  IF ~found \/ k # docID
                          THEN Checked(Failed([e3 EXCEPT !.docP = Placeholder(docID)],
                                              nextSt),
                                       IF nextSt = FDB_RESULT_ITERATOR_FAIL
                                       THEN FDB_RESULT_SUCCESS ELSE nextSt)
                          ELSE Checked([e3 EXCEPT !.docP = StoredDoc(k)], nextSt)
                 ELSE Checked(Failed(e2, seekSt), seekSt)

\* What the store can answer to the calls the next next() makes.
Answers(e) ==
    IF e.iter = "null" \/ (Len(e.docIDs) > 0 /\ e.cur > Len(e.docIDs))
    THEN {<<FDB_RESULT_SUCCESS, FDB_RESULT_SUCCESS>>}
    ELSE IF Len(e.docIDs) = 0
    THEN {<<FDB_RESULT_SUCCESS, st>> : st \in NextStatuses(e.cursor, e.end)}
    ELSE LET docID == e.docIDs[e.cur]
         IN  {<<sk, st>> \in SeekStatuses(e, docID)
                               \X {FDB_RESULT_SUCCESS, FDB_RESULT_ITERATOR_FAIL,
                                    FDB_RESULT_FAIL} :
                   IF sk = FDB_RESULT_SUCCESS
                   THEN st \in NextStatuses(docID, e.end)
                   ELSE st = FDB_RESULT_SUCCESS}

\* DatabaseGetters::enumerate(docIDs) and the constructor it calls.
enumerate_docIDs(ids, initSt) ==
    IF Len(ids) = 0
    THEN [NoEnum EXCEPT !.kind = "empty"]
    ELSE IF initSt # FDB_RESULT_SUCCESS
    THEN [NoEnum EXCEPT !.req = ids, !.ret = "threw", !.ioError = TRUE]
    ELSE [NoEnum EXCEPT !.kind = "set", !.iter = "open", !.req = ids,
                        !.docIDs = Sort(ids), !.cursor = Sort(ids)[1],
                        !.end = MaxKey]

\* DatabaseGetters::enumerate(startKey, endKey) and the constructor it calls.
enumerate_range(startKey, endKey, initSt) ==
    IF initSt # FDB_RESULT_SUCCESS
    THEN [NoEnum EXCEPT !.ret = "threw", !.ioError = TRUE]
    ELSE [NoEnum EXCEPT !.kind = "range", !.iter = "open", !.cursor = startKey,
                        !.end = endKey]

\* The sequences of at most n document IDs.
IDLists(n) == UNION {[1..m -> EnumKeys] : m \in 0..n}

EnumerateDocIDs ==
    /\ enum.kind = "none" /\ enum.ret = "none"
    /\ \E ids \in IDLists(MaxIDs), initSt \in {FDB_RESULT_SUCCESS, FDB_RESULT_FAIL} :
         LET e == enumerate_docIDs(ids, initSt)
         IN  \E a \in Answers(e) :
               enum' = IF e.kind = "set" THEN next(e, a[1], a[2]) ELSE e
    /\ UNCHANGED <<eStored, dataVars, storeVars>>

EnumerateRange ==
    /\ enum.kind = "none" /\ enum.ret = "none"
    /\ \E startKey \in EnumKeys, endKey \in EnumKeys,
          initSt \in {FDB_RESULT_SUCCESS, FDB_RESULT_FAIL} :
         LET e == enumerate_range(startKey, endKey, initSt)
         IN  \E a \in Answers(e) :
               enum' = IF e.kind = "range" THEN next(e, a[1], a[2]) ELSE e
    /\ UNCHANGED <<eStored, dataVars, storeVars>>

DocEnumerator_next ==
    /\ enum.kind # "none"
    /\ \E a \in Answers(enum) : enum' = next(enum, a[1], a[2])
    /\ UNCHANGED <<eStored, dataVars, storeVars>>

DocEnumerator_close ==
    /\ enum.kind # "none"
    /\ enum' = [close(enum) EXCEPT !.ret = "closed", !.lastID = 0]
    /\ UNCHANGED <<eStored, dataVars, storeVars>>

\* ------------------------------------------------------------ encoded values
MaxItems == 2
\* The calls made on the writer of SpecWrite.
MaxCalls == 3
\* The entries of the outer dict of SpecDict.
MaxPairs == 2

\* enum typeCode of Data.hh, numbered as the table of type codes numbers them.
kNullCode == 0
kFalseCode == 1
kTrueCode == 2
kInt8Code == 3
kInt16Code == 4
kInt32Code == 5
kInt64Code == 6
kUInt64Code == 7
kFloat32Code == 8
kFloat64Code == 9
kRawNumberCode == 10
kDateCode == 11
kStringCode == 12
kSharedStringCode == 13
kSharedStringRefCode == 14
kExternStringCode == 15
kExternStringRefCode == 16
kDataCode == 17
kArrayCode == 18
kDictCode == 19

\* The valueType (Data.hh) of each type code.
kValueTypes ==
    <<"kNull",
      "kBoolean", "kBoolean",
      "kNumber", "kNumber", "kNumber", "kNumber", "kNumber",
      "kNumber", "kNumber",
      "kNumber",
      "kString", "kString", "kString",
      "kData",
      "kArray",
      "kDict">>

kMinSharedStringLength == 4
kMaxSharedStringLength == 100

\* ---- 64-bit integers, kept as their 8 bytes in little-endian order
RECURSIVE LEBytes(_, _)
LEBytes(n, k) == IF k = 0 THEN <<>> ELSE <<n % 256>> \o LEBytes(n \div 256, k - 1)

\* The int64_t of a small integer (two's complement).
I64(n) == LEBytes(n, 8)

INT8_MIN == <<128, 255, 255, 255, 255, 255, 255, 255>>
INT8_MAX == <<127, 0, 0, 0, 0, 0, 0, 0>>
INT16_MIN == <<0, 128, 255, 255, 255, 255, 255, 255>>
INT16_MAX == <<255, 127, 0, 0, 0, 0, 0, 0>>
INT32_MIN == <<0, 0, 0, 128, 255, 255, 255, 255>>
INT32_MAX == <<255, 255, 255, 127, 0, 0, 0, 0>>
INT64_MIN == <<0, 0, 0, 0, 0, 0, 0, 128>>
INT64_MAX == <<255, 255, 255, 255, 255, 255, 255, 127>>

\* a < b for two byte strings of one length read as unsigned integers
RECURSIVE UnsignedLess(_, _, _)
UnsignedLess(a, b, k) ==
    IF k = 0 THEN FALSE
    ELSE IF a[k] # b[k] THEN a[k] < b[k]
    ELSE UnsignedLess(a, b, k - 1)

\* a <= b for two int64_t
SignedLE(a, b) ==
    LET sa == (a[8] + 128) % 256
        sb == (b[8] + 128) % 256
    IN  IF sa # sb THEN sa < sb ELSE ~UnsignedLess(b, a, 7)

\* The conversion of an int8_t, int16_t or int32_t to int64_t.
SignExtend(bytes) ==
    bytes \o [k \in 1..(8 - Len(bytes)) |->
                 IF bytes[Len(bytes)] >= 128 THEN 255 ELSE 0]

\* ---- varint.hh
RECURSIVE PutUVarInt(_)
PutUVarInt(n) ==
    IF n < 128 THEN <<n>> ELSE <<128 + (n % 128)>> \o PutUVarInt(n \div 128)

\* The byte at an offset of a region; -1 outside the region.
ByteAt(b, p) == IF p >= 0 /\ p < Len(b) THEN b[p + 1] ELSE -1

\* GetUVarInt over the bytes from offset p on: the number and the count of
\* bytes consumed, the count being 0 when no terminating byte is found. The
\* number is then whatever the caller's variable held: unset.
RECURSIVE GetUVarInt(_, _, _)
GetUVarInt(b, p, u) ==
    LET c == ByteAt(b, p)
    IN  IF c < 0 THEN [n |-> u, len |-> 0]
        ELSE IF c < 128 THEN [n |-> c, len |-> 1]
        ELSE LET r == GetUVarInt(b, p + 1, u)
             IN  IF r.len = 0 \/ r.len >= 4 THEN [n |-> u, len |-> 0]
                 ELSE [n |-> (c - 128) + 128 * r.n, len |-> r.len + 1]

\* ---- abstract values
VNull == [t |-> "null", b |-> FALSE, i |-> <<>>, n |-> 0, s |-> <<>>,
          keys |-> <<>>, items |-> <<>>]
VBool(x) == [VNull EXCEPT !.t = "bool", !.b = x]
VInt(x) == [VNull EXCEPT !.t = "int", !.i = x]
VDate(x) == [VNull EXCEPT !.t = "date", !.n = x]
VString(x) == [VNull EXCEPT !.t = "string", !.s = x]
VData(x) == [VNull EXCEPT !.t = "data", !.s = x]
VArray(xs) == [VNull EXCEPT !.t = "array", !.items = xs]
VDict(ks, xs) == [VNull EXCEPT !.t = "dict", !.keys = ks, !.items = xs]

\* "a", "note", "k", "name"
StrA == <<97>>
StrNote == <<110, 111, 116, 101>>
StrK == <<107>>
StrName == <<110, 97, 109, 101>>

\* A key whose hashCode is that of "k".
StrL == <<76, 1>>

Strings == {StrA, StrNote, StrK, StrName, StrL}
DictKeys == {StrK, StrNote}
\* The keys of the dicts of SpecDict: two of them with one hashCode.
HashKeys == {StrK, StrNote, StrL}

IntSamples ==
    {I64(0), I64(-1), I64(127), I64(128), I64(-129), I64(32768),
     <<0, 0, 0, 128, 0, 0, 0, 0>>, INT64_MIN}

Scalars ==
    {VNull, VBool(FALSE), VBool(TRUE), VDate(200), VData(<<1, 2>>),
     VString(StrA), VString(StrNote), VString(StrName)}
    \cup {VInt(x) : x \in IntSamples}

SeqsUpTo(S, n) == UNION {[1..m -> S] : m \in 0..n}

Distinct(s) == \A j, k \in 1..Len(s) : j # k => s[j] # s[k]

\* uint64_t samples: 0, 2^31, 2^63 - 2, 2^63 - 1, 2^63, 2^64 - 1
UIntSamples ==
    {I64(0), <<0, 0, 0, 128, 0, 0, 0, 0>>,
     <<254, 255, 255, 255, 255, 255, 255, 127>>, INT64_MAX, INT64_MIN, I64(-1)}

Inner ==
    {VArray(<<>>), VArray(<<VString(StrNote)>>),
     VDict(<<StrNote>>, <<VInt(I64(1))>>), VDict(<<>>, <<>>)}

Arrays == {VArray(xs) : xs \in SeqsUpTo(Scalars \cup Inner, MaxItems)}

Dicts ==
    UNION {{VDict(ks, xs) : xs \in [1..Len(ks) -> Scalars \cup Inner]} :
              ks \in {s \in SeqsUpTo(DictKeys, MaxItems) : Distinct(s)}}

Values == Scalars \cup Arrays \cup Dicts

\* Dicts of up to n entries with distinct keys and values of S.
DictsOver(S, n) ==
    UNION {{VDict(ks, xs) : xs \in [1..Len(ks) -> S]} :
              ks \in {s \in SeqsUpTo(HashKeys, n) : Distinct(s)}}

Leaves == {VNull, VString(StrA)}

\* Dicts nested three deep.
Deep ==
    {VDict(<<StrK, StrNote>>,
           <<VDict(<<StrL, StrNote>>, <<VDict(<<StrK>>, <<VNull>>), VNull>>),
             VString(StrA)>>)}

DictDocs == DictsOver(Leaves \cup DictsOver(Leaves, 1), MaxPairs) \cup Deep

\* ---- the calls on the writer that encode a value
Tok(op) == [op |-> op, b |-> FALSE, i |-> <<>>, n |-> 0, s |-> <<>>]

RECURSIVE Calls(_)
RECURSIVE CallsOfItems(_)
RECURSIVE CallsOfPairs(_, _)
Calls(v) ==
    CASE v.t = "null" -> <<Tok("writeNull")>>
      [] v.t = "bool" -> <<[Tok("writeBool") EXCEPT !.b = v.b]>>
      [] v.t = "int" -> <<[Tok("writeInt") EXCEPT !.i = v.i]>>
      [] v.t = "date" -> <<[Tok("writeDate") EXCEPT !.n = v.n]>>
      [] v.t = "string" -> <<[Tok("writeString") EXCEPT !.s = v.s]>>
      [] v.t = "data" -> <<[Tok("writeData") EXCEPT !.s = v.s]>>
      [] v.t = "array" ->
            <<[Tok("beginArray") EXCEPT !.n = Len(v.items)]>>
            \o CallsOfItems(v.items)
      [] v.t = "dict" ->
            <<[Tok("beginDict") EXCEPT !.n = Len(v.items)]>>
            \o CallsOfPairs(v.keys, v.items) \o <<Tok("endDict")>>
CallsOfItems(xs) ==
    IF xs = <<>> THEN <<>> ELSE Calls(Head(xs)) \o CallsOfItems(Tail(xs))
CallsOfPairs(ks, xs) ==
    IF ks = <<>> THEN <<>>
    ELSE <<[Tok("writeKey") EXCEPT !.s = Head(ks)]>> \o Calls(Head(xs))
         \o CallsOfPairs(Tail(ks), Tail(xs))

\* ---- DataWriter.cc
\* _out.tellp()
tellp(w) == w.pos

\* _out.seekp(pos)
seekp(w, pos) == [w EXCEPT !.pos = pos]

\* The stream's bytes after bytes have been written at offset pos.
WriteAt(o, pos, bytes) ==
    LET n == IF pos + Len(bytes) > Len(o) THEN pos + Len(bytes) ELSE Len(o)
    IN  [k \in 1..n |-> IF k > pos /\ k <= pos + Len(bytes) THEN bytes[k - pos]
                        ELSE IF k <= Len(o) THEN o[k] ELSE 0]

\* _out.write(bytes): at the write position, which moves past them
Emit(w, bytes) ==
    [w EXCEPT !.out = WriteAt(@, w.pos, bytes), !.pos = @ + Len(bytes)]

addTypeCode(w, code) == Emit(w, <<code>>)
addUVarint(w, n) == Emit(w, PutUVarInt(n))

writeNull(w) == addTypeCode(w, kNullCode)

writeBool(w, b) == addTypeCode(w, IF b THEN kTrueCode ELSE kFalseCode)

writeInt(w, i) ==
    IF SignedLE(INT8_MIN, i) /\ SignedLE(i, INT8_MAX)
    THEN Emit(w, <<kInt8Code>> \o SubSeq(i, 1, 1))
    ELSE IF SignedLE(INT16_MIN, i) /\ SignedLE(i, INT16_MAX)
    THEN Emit(w, <<kInt16Code>> \o SubSeq(i, 1, 2))
    ELSE IF SignedLE(INT32_MIN, i) /\ SignedLE(i, INT32_MAX)
    THEN Emit(w, <<kInt32Code>> \o SubSeq(i, 1, 4))
    ELSE Emit(w, <<kInt64Code>> \o i)

writeUInt(w, u) ==
    IF UnsignedLess(u, INT64_MAX, 8)
    THEN writeInt(w, u)
    ELSE Emit(addTypeCode(w, kUInt64Code), u)

writeDate(w, dateTime) == addUVarint(addTypeCode(w, kDateCode), dateTime)

writeData(w, s) == Emit(addUVarint(addTypeCode(w, kDataCode), Len(s)), s)

\* _externStrings->find(str)
ExternID(ext, str) == {e \in ext.table : e.str = str}

\* A writeString that writes the reference and leaves the earlier string's
\* tag as it was.
writeString_LeavesTag(w, ext, str) ==
    IF ext.bound /\ ExternID(ext, str) # {}
    THEN addUVarint(addTypeCode(w, kExternStringRefCode),
                    (CHOOSE e \in ExternID(ext, str) : TRUE).id)
    ELSE
    LET len == Len(str)
        shareable == len >= kMinSharedStringLength /\ len <= kMaxSharedStringLength
        curOffset == tellp(w)
        sharedOffset == w.sharedStrings[str]
        inline == Emit(addUVarint(addTypeCode(w, kStringCode), len), str)
    IN  IF shareable /\ sharedOffset > 0
        THEN addUVarint(addTypeCode(w, kSharedStringRefCode),
                        curOffset - sharedOffset)
        ELSE IF shareable
        THEN [inline EXCEPT !.sharedStrings[str] = curOffset]
        ELSE inline

writeString(w, ext, str) ==
    IF ext.bound /\ ExternID(ext, str) # {}
    THEN addUVarint(addTypeCode(w, kExternStringRefCode),
                    (CHOOSE e \in ExternID(ext, str) : TRUE).id)
    ELSE
    LET len == Len(str)
        shareable == len >= kMinSharedStringLength /\ len <= kMaxSharedStringLength
        curOffset == tellp(w)
        sharedOffset == w.sharedStrings[str]
        inline == Emit(addUVarint(addTypeCode(w, kStringCode), len), str)
        pos == tellp(w)
        patched == seekp(addTypeCode(seekp(w, sharedOffset), kSharedStringCode),
                         pos)
    IN  IF shareable /\ sharedOffset > 0
        THEN addUVarint(addTypeCode(patched, kSharedStringRefCode),
                        curOffset - sharedOffset)
        ELSE IF shareable
        THEN [inline EXCEPT !.sharedStrings[str] = curOffset]
        ELSE inline

beginArray(w, count) == addUVarint(addTypeCode(w, kArrayCode), count)

beginDict(w, count) ==
    LET w1 == addUVarint(addTypeCode(w, kDictCode), count)
        w2 == [w1 EXCEPT !.savedIndexPos = Append(@, w.indexPos),
                         !.indexPos = tellp(w1)]
    IN  Emit(w2, [k \in 1..(2 * count) |-> 0])

\* dict::hashCode (Data.cc); the hash function itself stands for
\* MurmurHash3_x86_32 with seed 0.
RECURSIVE Hash32(_)
Hash32(s) == IF s = <<>> THEN 0 ELSE (Head(s) + 31 * Hash32(Tail(s))) % 1048576
hashCode(s) == Hash32(s) % 65536

\* A writeKey that does not seek back to where it was after writing the hash.
writeKey_StaysAtIndex(w, ext, s) ==
    LET h == hashCode(s)
        w1 == Emit(seekp(w, w.indexPos), <<h % 256, h \div 256>>)
        w2 == [w1 EXCEPT !.indexPos = @ + 2]
    IN  writeString(w2, ext, s)

writeKey(w, ext, s) ==
    LET h == hashCode(s)
        pos == tellp(w)
        w1 == Emit(seekp(w, w.indexPos), <<h % 256, h \div 256>>)
        w2 == seekp([w1 EXCEPT !.indexPos = @ + 2], pos)
    IN  writeString(w2, ext, s)

\* An endDict that leaves _indexPos where the nested dict's keys left it.
endDict_KeepsIndexPos(w) ==
    [w EXCEPT !.savedIndexPos = SubSeq(@, 1, Len(@) - 1)]

endDict(w) ==
    [w EXCEPT !.indexPos = w.savedIndexPos[Len(w.savedIndexPos)],
              !.savedIndexPos = SubSeq(@, 1, Len(@) - 1)]

\* The external string table a writer is bound to, if any.
NoExtern == [bound |-> FALSE, table |-> {}]
ExternNames == [bound |-> TRUE, table |-> {[str |-> StrName, id |-> 1]}]

\* dataWriter::dataWriter: _indexPos is not initialized.
NewWriter(garbage) ==
    [out |-> <<>>, pos |-> 0, sharedStrings |-> [s \in Strings |-> 0],
     indexPos |-> garbage, savedIndexPos |-> <<>>]

\* ---- the calls, one at a time
Calling(op) == dTodo # <<>> /\ Head(dTodo).op = op

Called(w) ==
    /\ writer' = w
    /\ dTodo' = Tail(dTodo)
    /\ dDone' = Append(dDone, [op |-> Head(dTodo).op, s |-> Head(dTodo).s,
                               i |-> Head(dTodo).i,
                               at |-> tellp(writer), end |-> tellp(w)])
    /\ UNCHANGED <<externStrings, unset, dValue, readerVars, storeVars, enumVars>>

dataWriter_writeNull == Calling("writeNull") /\ Called(writeNull(writer))

dataWriter_writeBool ==
    Calling("writeBool") /\ Called(writeBool(writer, Head(dTodo).b))

dataWriter_writeInt ==
    Calling("writeInt") /\ Called(writeInt(writer, Head(dTodo).i))

dataWriter_writeUInt ==
    Calling("writeUInt") /\ Called(writeUInt(writer, Head(dTodo).i))

dataWriter_writeDate ==
    Calling("writeDate") /\ Called(writeDate(writer, Head(dTodo).n))

dataWriter_writeData ==
    Calling("writeData") /\ Called(writeData(writer, Head(dTodo).s))

dataWriter_writeString ==
    Calling("writeString")
    /\ Called(writeString(writer, externStrings, Head(dTodo).s))

dataWriter_beginArray ==
    Calling("beginArray") /\ Called(beginArray(writer, Head(dTodo).n))

dataWriter_beginDict ==
    Calling("beginDict") /\ Called(beginDict(writer, Head(dTodo).n))

dataWriter_writeKey ==
    Calling("writeKey") /\ Called(writeKey(writer, externStrings, Head(dTodo).s))

dataWriter_endDict == Calling("endDict") /\ Called(endDict(writer))

\* ---- Data.cc
Ok(p) == [ok |-> TRUE, pos |-> p, err |-> ""]
Throw(msg) == [ok |-> FALSE, pos |-> 0, err |-> msg]

\* value::type
type(b, p) ==
    LET code == ByteAt(b, p)
    IN  IF code >= 0 /\ code < Len(kValueTypes) THEN kValueTypes[code + 1] ELSE "kNull"

\* value::getParam(after): the parameter and the offset after it
getParam(b, p, u) ==
    LET r == GetUVarInt(b, p + 1, u)
    IN  [n |-> r.n, after |-> p + 1 + r.len]

\* dict::firstKey
firstKey(b, p, u) ==
    LET r == getParam(b, p, u)
    IN  [count |-> r.n, pos |-> r.after + 2 * r.n]

\* array::first
first(b, p, u) == getParam(b, p, u).after

\* value::next
RECURSIVE value_next(_, _, _)
RECURSIVE NextTimes(_, _, _, _)
value_next(b, p, u) ==
    LET code == ByteAt(b, p)
        end == p + 1
        r == getParam(b, p, u)
    IN  IF code >= kNullCode /\ code <= kTrueCode THEN Ok(end)
        ELSE IF code = kInt8Code THEN Ok(end + 1)
        ELSE IF code = kInt16Code THEN Ok(end + 2)
        ELSE IF code = kInt32Code THEN Ok(end + 4)
        ELSE IF code = kInt64Code THEN Ok(end + 8)
        ELSE IF code \in {kStringCode, kRawNumberCode, kDataCode}
        THEN Ok(r.after + r.n)
        ELSE IF code \in {kSharedStringCode, kExternStringCode} THEN Ok(r.after)
        ELSE IF code = kArrayCode THEN NextTimes(b, r.after, r.n, u)
        ELSE IF code = kDictCode
        THEN NextTimes(b, firstKey(b, p, u).pos, 2 * firstKey(b, p, u).count, u)
        ELSE Throw("bad typecode")
\* v = v->next(), n times
NextTimes(b, p, n, u) ==
    IF n = 0 THEN Ok(p)
    ELSE LET r == value_next(b, p, u)
         IN  IF r.ok THEN NextTimes(b, r.pos, n - 1, u) ELSE r

\* The doubles and floats of the model: their bytes and the int64_t a cast yields.
Float64Casts ==
    {[bytes |-> <<0, 0, 0, 0, 0, 0, 248, 63>>, int |-> I64(1)],
     [bytes |-> <<0, 0, 0, 0, 0, 0, 4, 192>>, int |-> I64(-2)]}
Float32Casts ==
    {[bytes |-> <<0, 0, 192, 63>>, int |-> I64(1)],
     [bytes |-> <<0, 0, 32, 192>>, int |-> I64(-2)]}
CastToInt(casts, bytes) ==
    IF \E c \in casts : c.bytes = bytes
    THEN (CHOOSE c \in casts : c.bytes = bytes).int
    ELSE I64(0)

Bytes(b, p, n) == [k \in 1..n |-> ByteAt(b, p + k - 1)]

\* value::asInt
asInt(b, p) ==
    LET code == ByteAt(b, p)
        num(i) == [ok |-> TRUE, i |-> i, err |-> ""]
    IN  IF code \in {kNullCode, kFalseCode} THEN num(I64(0))
        ELSE IF code = kTrueCode THEN num(I64(1))
        ELSE IF code = kInt8Code THEN num(SignExtend(Bytes(b, p + 1, 1)))
        ELSE IF code = kInt16Code THEN num(SignExtend(Bytes(b, p + 1, 2)))
        ELSE IF code = kInt32Code THEN num(SignExtend(Bytes(b, p + 1, 4)))
        ELSE IF code = kInt64Code THEN num(Bytes(b, p + 1, 8))
        ELSE IF code = kFloat32Code
        THEN num(CastToInt(Float32Casts, Bytes(b, p + 1, 4)))
        ELSE IF code = kFloat64Code
        THEN num(CastToInt(Float64Casts, Bytes(b, p + 1, 8)))
        ELSE [ok |-> FALSE, i |-> <<>>, err |-> "value is not a number"]

\* value::asBool
asBool(b, p) ==
    LET code == ByteAt(b, p)
    IN  IF code \in {kNullCode, kFalseCode} THEN [ok |-> TRUE, v |-> FALSE]
        ELSE IF code >= kInt8Code /\ code <= kRawNumberCode
        THEN [ok |-> asInt(b, p).ok, v |-> asInt(b, p).ok /\ asInt(b, p).i # I64(0)]
        ELSE [ok |-> TRUE, v |-> TRUE]

\* value::asString
asString(b, p, u) ==
    LET code == ByteAt(b, p)
        r == getParam(b, p, u)
        str == p + r.n
        r2 == getParam(b, str, u)
        slice(payload, n) == [ok |-> TRUE, s |-> Bytes(b, payload, n), err |-> ""]
        throw(msg) == [ok |-> FALSE, s |-> <<>>, err |-> msg]
    IN  IF code = kStringCode THEN slice(r.after, r.n)
        ELSE IF code = kSharedStringCode
        THEN IF ByteAt(b, str) # kStringCode THEN throw("invalid shared-string")
             ELSE slice(r2.after, r2.n)
        ELSE IF code = kExternStringCode
        THEN throw("can't dereference extern string without table")
        ELSE throw("value is not a string")

\* dict::get: the offset of the value found, NULL (found FALSE), or what was
\* thrown on the way. i is the slot looked at, keyIndex and key the lazy key
\* pointer.
RECURSIVE dict_get_from(_, _, _, _, _, _, _, _)
dict_get_from(b, p, keyToFind, hashToFind, i, keyIndex, key, u) ==
    LET r == getParam(b, p, u)
        count == r.n
        hash == ByteAt(b, r.after + 2 * i) + 256 * ByteAt(b, r.after + 2 * i + 1)
        at == NextTimes(b, key, 2 * (i - keyIndex), u)
        str == asString(b, at.pos, u)
        null == [ok |-> TRUE, found |-> FALSE, pos |-> 0, err |-> ""]
        throw(msg) == [ok |-> FALSE, found |-> FALSE, pos |-> 0, err |-> msg]
    IN  IF i >= count THEN null
        ELSE IF hash # hashToFind
        THEN dict_get_from(b, p, keyToFind, hashToFind, i + 1, keyIndex, key, u)
        ELSE IF ~at.ok THEN throw(at.err)
        ELSE IF ~str.ok THEN throw(str.err)
        ELSE IF str.s = keyToFind
        THEN LET v == value_next(b, at.pos, u)
             IN  IF v.ok THEN [ok |-> TRUE, found |-> TRUE, pos |-> v.pos, err |-> ""]
                 ELSE throw(v.err)
        ELSE dict_get_from(b, p, keyToFind, hashToFind, i + 1, i, at.pos, u)

dict_get(b, p, keyToFind, hashToFind, u) ==
    dict_get_from(b, p, keyToFind, hashToFind, 0, 0, firstKey(b, p, u).pos, u)

\* value::asDouble: the float or double stored, or the int64_t converted
asDouble(b, p) ==
    LET code == ByteAt(b, p)
        dbl(of, x) == [ok |-> TRUE, of |-> of, x |-> x, err |-> ""]
    IN  IF code = kFloat32Code THEN dbl("float", Bytes(b, p + 1, 4))
        ELSE IF code = kFloat64Code THEN dbl("double", Bytes(b, p + 1, 8))
        ELSE IF asInt(b, p).ok THEN dbl("int64_t", asInt(b, p).i)
        ELSE [ok |-> FALSE, of |-> "", x |-> <<>>, err |-> asInt(b, p).err]

\* value::asArray and value::asDict: whether the downcast is made
asArray(b, p) == ByteAt(b, p) = kArrayCode
asDict(b, p) == ByteAt(b, p) = kDictCode

\* No reader function has been called.
NoCall == [fn |-> "none", p |-> 0, res |-> Ok(0)]

\* ---- reading a value back with the accessors of its kind
Got(v, p) == [ok |-> TRUE, value |-> v, pos |-> p]
NotRead == [ok |-> FALSE, value |-> VNull, pos |-> 0]

RECURSIVE Decode(_, _, _, _)
RECURSIVE DecodeItems(_, _, _, _, _)
\* The value at offset p of b, read as a value of the kind of v.
Decode(b, p, v, u) ==
    LET nx == value_next(b, p, u)
    IN  IF ~nx.ok THEN NotRead
        ELSE
        CASE v.t = "null" ->
                IF type(b, p) = "kNull" THEN Got(VNull, nx.pos) ELSE NotRead
          [] v.t = "bool" ->
                IF type(b, p) = "kBoolean" /\ asBool(b, p).ok
                THEN Got(VBool(asBool(b, p).v), nx.pos) ELSE NotRead
          [] v.t \in {"int", "date"} ->
                IF asInt(b, p).ok THEN Got(VInt(asInt(b, p).i), nx.pos) ELSE NotRead
          [] v.t = "string" ->
                IF asString(b, p, u).ok
                THEN Got(VString(asString(b, p, u).s), nx.pos) ELSE NotRead
          [] v.t = "data" ->
                IF asString(b, p, u).ok
                THEN Got(VData(asString(b, p, u).s), nx.pos) ELSE NotRead
          [] v.t = "array" ->
                IF asArray(b, p) /\ getParam(b, p, u).n = Len(v.items)
                THEN LET r == DecodeItems(b, first(b, p, u), <<>>, v.items, u)
                     IN  IF r.ok THEN Got(VArray(r.value.items), nx.pos)
                         ELSE NotRead
                ELSE NotRead
          [] v.t = "dict" ->
                IF asDict(b, p) /\ firstKey(b, p, u).count = Len(v.items)
                THEN LET r == DecodeItems(b, firstKey(b, p, u).pos, v.keys,
                                          v.items, u)
                     IN  IF r.ok THEN Got(VDict(r.value.keys, r.value.items), nx.pos)
                         ELSE NotRead
                ELSE NotRead
\* The values from offset p on, each preceded by its key where ks names keys:
\* key.asString(), key.next(), the value, value.next().
DecodeItems(b, p, ks, xs, u) ==
    IF xs = <<>> THEN Got(VDict(<<>>, <<>>), p)
    ELSE LET hasKey == ks # <<>>
             k == asString(b, p, u)
             kn == value_next(b, p, u)
             vp == IF hasKey THEN kn.pos ELSE p
             x == Decode(b, vp, Head(xs), u)
             rest == DecodeItems(b, x.pos, IF hasKey THEN Tail(ks) ELSE <<>>,
                                 Tail(xs), u)
         IN  IF hasKey /\ ~(k.ok /\ kn.ok) THEN NotRead
             ELSE IF ~x.ok THEN NotRead
             ELSE IF ~rest.ok THEN NotRead
             ELSE Got(VDict(IF hasKey THEN <<k.s>> \o rest.value.keys ELSE <<>>,
                             <<x.value>> \o rest.value.items),
                       rest.pos)

\* The writer's output read back as a value of the kind that was written.
Decoded == Decode(writer.out, 0, dValue, unset)

\* ---- the reader's functions called on a value pointer into any region
\* The longest region made of any bytes.
MaxBytes == 3

\* Type codes, small parameters, a code outside the table and a varint byte
\* with the continuation bit.
RegionBytes ==
    {0, 1, 2, kStringCode, kSharedStringCode, kSharedStringRefCode,
     kArrayCode, kDictCode, kDictCode + 1, 128}

\* One well-formed value of each type code that needs more bytes, and a dict
\* of one key.
ValueSamples ==
    {<<kInt8Code, 255>>, <<kInt16Code, 127, 255>>,
     <<kInt32Code, 0, 0, 0, 128>>, <<kInt64Code>> \o INT64_MIN,
     <<kInt8Code, 0>>, <<kUInt64Code>> \o I64(-1), <<kUInt64Code>> \o I64(0),
     <<kFloat32Code, 0, 0, 192, 63>>,
     <<kFloat64Code, 0, 0, 0, 0, 0, 0, 4, 192>>,
     <<kFloat64Code, 0, 0, 0, 0, 0, 0, 0, 0>>,
     <<kRawNumberCode, 1, 55>>, <<kRawNumberCode, 1, 48>>,
     <<kDateCode, 200, 1>>, <<kDataCode, 1, 9>>,
     <<kExternStringCode, 1>>, <<kExternStringRefCode, 1>>,
     <<kDictCode, 1, hashCode(StrK) % 256, hashCode(StrK) \div 256,
       kStringCode, 1>> \o StrK \o <<kNullCode>>}

Regions == (SeqsUpTo(RegionBytes, MaxBytes) \ {<<>>}) \cup ValueSamples

\* A function called on the value at offset p of the region.
CallOn(fn, p, res) ==
    /\ p \in 0..(Len(rBuf) - 1)
    /\ rGot' = [fn |-> fn, p |-> p, res |-> res]
    /\ UNCHANGED <<rBuf, writer, externStrings, unset, dValue, dTodo, dDone,
                   storeVars, enumVars>>

Call_type(p) == CallOn("type", p, [ok |-> TRUE, t |-> type(rBuf, p)])
Call_next(p) == CallOn("next", p, value_next(rBuf, p, unset))
Call_asBool(p) == CallOn("asBool", p, asBool(rBuf, p))
Call_asInt(p) == CallOn("asInt", p, asInt(rBuf, p))
Call_asDouble(p) == CallOn("asDouble", p, asDouble(rBuf, p))
Call_asString(p) == CallOn("asString", p, asString(rBuf, p, unset))
Call_asArray(p) == CallOn("asArray", p, [ok |-> asArray(rBuf, p)])
Call_asDict(p) == CallOn("asDict", p, [ok |-> asDict(rBuf, p)])
\* dict::get on a dict pointer, one that asDict gave, whose hash slots lie in
\* the region.
Call_get(p, key) ==
    /\ asDict(rBuf, p)
    /\ firstKey(rBuf, p, unset).pos <= Len(rBuf)
    /\ CallOn("get", p, dict_get(rBuf, p, key, hashCode(key), unset))

\* ------------------------------------------------------------ specifications
InitTx ==
    /\ private \in BOOLEAN
    /\ fileTx = [f \in Files |-> NoTx]
    /\ pc = [t \in Threads |-> "idle"]
    /\ tx = [t \in Threads |-> NoTransaction]
    /\ dbHandle = [d \in DBs |-> RealHandle(d)]
    /\ log = [f \in Files |-> <<>>]
    /\ commits = [f \in Files |-> {0}]
    /\ seqHigh = [f \in Files |-> 0]
    /\ last = [t |-> 0, op |-> "none", status |-> FDB_RESULT_SUCCESS, seq |-> 0,
               arg |-> 0]
    /\ lastRead = NoRead
    /\ eStored = {}
    /\ enum = NoEnum
    /\ writer = NewWriter(0)
    /\ externStrings = NoExtern
    /\ unset = 0
    /\ dValue = VNull
    /\ dTodo = <<>>
    /\ dDone = <<>>
    /\ rBuf = <<>>
    /\ rGot = NoCall
    /\ reg = NoReg

Init == InitTx /\ observe = FALSE

InitSeq == InitTx /\ observe = TRUE

\* Threads beginning, using and destroying Transactions on the Databases of
\* file 1.
Next ==
    \E t \in Threads :
        \/ \E d \in ReadDBs : Transaction_new(t, d)
        \/ WakeUp(t)
        \/ SpuriousWakeUp(t)
        \/ LastSeq(1) < MaxWrites /\ Transaction_set(t, 1, 1)
        \/ Transaction_dtor(t)
        \/ Transaction_dtor_end(t)
        \/ Transaction_dtor_check(t)

Spec == Init /\ [][Next]_vars

\* The same threads, which may also begin a Transaction while their own is
\* alive. Every thread that can take a step eventually takes one.
NextNested ==
    \/ Next
    \/ \E t \in Threads :
           \/ \E d \in ReadDBs : Transaction_new_nested(t, d)
           \/ SpuriousWakeUp_nested(t)
           \/ WakeUp_nested(t)

SpecNested == Init /\ [][NextNested]_vars /\ WF_vars(NextNested)

\* One thread more than Threads: a holder of the slot, a waiter that is
\* notified and a waiter that is not.
WakeThreads == 1..(NThreads + 1)

InitWake ==
    /\ observe = TRUE
    /\ private \in BOOLEAN
    /\ fileTx = [f \in Files |-> NoTx]
    /\ pc = [t \in WakeThreads |-> "idle"]
    /\ tx = [t \in WakeThreads |-> NoTransaction]
    /\ dbHandle = [d \in DBs |-> RealHandle(d)]
    /\ log = [f \in Files |-> <<>>]
    /\ commits = [f \in Files |-> {0}]
    /\ seqHigh = [f \in Files |-> 0]
    /\ last = [t |-> 0, op |-> "none", status |-> FDB_RESULT_SUCCESS, seq |-> 0,
               arg |-> 0]
    /\ lastRead = NoRead
    /\ eStored = {}
    /\ enum = NoEnum
    /\ writer = NewWriter(0)
    /\ externStrings = NoExtern
    /\ unset = 0
    /\ dValue = VNull
    /\ dTodo = <<>>
    /\ dDone = <<>>
    /\ rBuf = <<>>
    /\ rGot = NoCall
    /\ reg = NoReg

NextWake ==
    \E t \in WakeThreads :
        \/ \E d \in ReadDBs : Transaction_new(t, d)
        \/ WakeUp(t)
        \/ SpuriousWakeUp(t)
        \/ LastSeq(1) < MaxWrites /\ Transaction_set(t, 1, 1)
        \/ Transaction_dtor(t)
        \/ Transaction_dtor_end(t)
        \/ Transaction_dtor_check(t)

\* What the code and its callers' discipline guarantee: a thread that the wait
\* has let go tests the slot again, a Transaction that holds the slot is
\* destroyed, and a destructor runs to its end. Nothing makes a thread begin a
\* Transaction, and nothing makes a wait return without a notify.
FairWake ==
    \A t \in WakeThreads :
        /\ WF_vars(WakeUp(t))
        /\ WF_vars(Transaction_dtor(t))
        /\ WF_vars(Transaction_dtor_end(t))
        /\ WF_vars(Transaction_dtor_check(t))

SpecWake == InitWake /\ [][NextWake]_vars /\ FairWake

\* One thread's transactions, one after the other, with what each operation
\* returned or threw.
NextSeq ==
    \/ Transaction_new(1, 1)
    \/ \E k \in Keys : Transaction_set(1, k, 1)
    \/ \E s \in 0..MaxSeq : Transaction_del(1, s)
    \/ \E s \in 0..MaxSeq : Transaction_rollbackTo(1, s)
    \/ Transaction_commit(1)
    \/ Transaction_dtor(1)
    \/ Transaction_dtor_end(1)
    \/ Transaction_dtor_check(1)

SpecSeq == InitSeq /\ [][NextSeq]_vars

\* One thread's transactions and, at any moment, reads through the Databases.
NextRead ==
    \/ \E d \in ReadDBs : Transaction_new(1, d)
    \/ \E b \in Bodies : Transaction_set(1, 1, b)
    \/ Transaction_commit(1)
    \/ Transaction_dtor(1)
    \/ Transaction_dtor_end(1)
    \/ Transaction_dtor_check(1)
    \/ \E d \in ReadDBs, k \in Keys : Read(d, k)
    \/ \E d \in ReadDBs, k \in Keys : Get(d, k)
    \/ \E d \in ReadDBs, s \in 0..MaxSeq : GetSeq(d, s)

SpecRead == Init /\ [][NextRead]_vars

\* One DocEnumerator over a store holding any set of documents.
InitEnum ==
    /\ observe = FALSE
    /\ private = FALSE
    /\ fileTx = [f \in Files |-> NoTx]
    /\ pc = [t \in Threads |-> "idle"]
    /\ tx = [t \in Threads |-> NoTransaction]
    /\ dbHandle = [d \in DBs |-> RealHandle(d)]
    /\ log = [f \in Files |-> <<>>]
    /\ commits = [f \in Files |-> {0}]
    /\ seqHigh = [f \in Files |-> 0]
    /\ last = [t |-> 0, op |-> "none", status |-> FDB_RESULT_SUCCESS, seq |-> 0,
               arg |-> 0]
    /\ lastRead = NoRead
    /\ eStored \in SUBSET EnumKeys
    /\ enum = NoEnum
    /\ writer = NewWriter(0)
    /\ externStrings = NoExtern
    /\ unset = 0
    /\ dValue = VNull
    /\ dTodo = <<>>
    /\ dDone = <<>>
    /\ rBuf = <<>>
    /\ rGot = NoCall
    /\ reg = NoReg

NextEnum ==
    \/ EnumerateDocIDs
    \/ EnumerateRange
    \/ DocEnumerator_next
    \/ DocEnumerator_close

SpecEnum == InitEnum /\ [][NextEnum]_vars

\* One writer encoding one value, call by call.
InitData ==
    /\ observe = FALSE
    /\ private = FALSE
    /\ fileTx = [f \in Files |-> NoTx]
    /\ pc = [t \in Threads |-> "idle"]
    /\ tx = [t \in Threads |-> NoTransaction]
    /\ dbHandle = [d \in DBs |-> RealHandle(d)]
    /\ log = [f \in Files |-> <<>>]
    /\ commits = [f \in Files |-> {0}]
    /\ seqHigh = [f \in Files |-> 0]
    /\ last = [t |-> 0, op |-> "none", status |-> FDB_RESULT_SUCCESS, seq |-> 0,
               arg |-> 0]
    /\ lastRead = NoRead
    /\ eStored = {}
    /\ enum = NoEnum
    /\ unset \in {0, 5}
    /\ writer = NewWriter(unset)
    /\ externStrings \in {NoExtern, ExternNames}
    /\ dValue \in Values
    /\ dTodo = Calls(dValue)
    /\ dDone = <<>>
    /\ rBuf = <<>>
    /\ rGot = NoCall
    /\ reg = NoReg

NextData ==
    \/ dataWriter_writeNull
    \/ dataWriter_writeBool
    \/ dataWriter_writeInt
    \/ dataWriter_writeDate
    \/ dataWriter_writeData
    \/ dataWriter_writeString
    \/ dataWriter_beginArray
    \/ dataWriter_beginDict
    \/ dataWriter_writeKey
    \/ dataWriter_endDict

SpecData == InitData /\ [][NextData]_vars

\* One thread's transactions with deleteDatabase and erase among their
\* operations.
NextErase ==
    \/ Transaction_new(1, 1)
    \/ Transaction_set(1, 1, 1)
    \/ \E s \in 0..MaxSeq : Transaction_del(1, s)
    \/ \E s \in 0..MaxSeq : Transaction_rollbackTo(1, s)
    \/ Transaction_commit(1)
    \/ Transaction_deleteDatabase(1)
    \/ Transaction_erase(1)
    \/ Transaction_dtor(1)
    \/ Transaction_dtor_end(1)
    \/ Transaction_dtor_check(1)

SpecErase == InitSeq /\ [][NextErase]_vars

\* Threads constructing Databases on two paths.
NextOpen ==
    \E t \in Threads :
        \/ \E path \in Paths : forPath_lock(t, path)
        \/ forPath_find(t)
        \/ forPath_create(t)
        \/ forPath_return(t)
        \/ Database_open(t)

SpecOpen == Init /\ [][NextOpen]_vars

\* One writer encoding a dict whose values are nulls, strings and dicts.
InitDict ==
    /\ observe = FALSE
    /\ private = FALSE
    /\ fileTx = [f \in Files |-> NoTx]
    /\ pc = [t \in Threads |-> "idle"]
    /\ tx = [t \in Threads |-> NoTransaction]
    /\ dbHandle = [d \in DBs |-> RealHandle(d)]
    /\ log = [f \in Files |-> <<>>]
    /\ commits = [f \in Files |-> {0}]
    /\ seqHigh = [f \in Files |-> 0]
    /\ last = [t |-> 0, op |-> "none", status |-> FDB_RESULT_SUCCESS, seq |-> 0,
               arg |-> 0]
    /\ lastRead = NoRead
    /\ eStored = {}
    /\ enum = NoEnum
    /\ unset \in {0, 5}
    /\ writer = NewWriter(unset)
    /\ externStrings \in {NoExtern, ExternNames}
    /\ dValue \in DictDocs
    /\ dTodo = Calls(dValue)
    /\ dDone = <<>>
    /\ rBuf = <<>>
    /\ rGot = NoCall
    /\ reg = NoReg

NextDict ==
    \/ dataWriter_writeNull
    \/ dataWriter_writeString
    \/ dataWriter_beginDict
    \/ dataWriter_writeKey
    \/ dataWriter_endDict

SpecDict == InitDict /\ [][NextDict]_vars

\* One writer called with any short series of strings, nulls and unsigned
\* integers, from offset 0 of its stream on.
WriteToks ==
    {Tok("writeNull")}
    \cup {[Tok("writeString") EXCEPT !.s = x] : x \in Strings}
    \cup {[Tok("writeUInt") EXCEPT !.i = u] : u \in UIntSamples}

InitWrite ==
    /\ observe = FALSE
    /\ private = FALSE
    /\ fileTx = [f \in Files |-> NoTx]
    /\ pc = [t \in Threads |-> "idle"]
    /\ tx = [t \in Threads |-> NoTransaction]
    /\ dbHandle = [d \in DBs |-> RealHandle(d)]
    /\ log = [f \in Files |-> <<>>]
    /\ commits = [f \in Files |-> {0}]
    /\ seqHigh = [f \in Files |-> 0]
    /\ last = [t |-> 0, op |-> "none", status |-> FDB_RESULT_SUCCESS, seq |-> 0,
               arg |-> 0]
    /\ lastRead = NoRead
    /\ eStored = {}
    /\ enum = NoEnum
    /\ unset = 0
    /\ writer = NewWriter(unset)
    /\ externStrings \in {NoExtern, ExternNames}
    /\ dValue = VNull
    /\ dTodo \in SeqsUpTo(WriteToks, MaxCalls)
    /\ dDone = <<>>
    /\ rBuf = <<>>
    /\ rGot = NoCall
    /\ reg = NoReg

NextWrite ==
    \/ dataWriter_writeNull
    \/ dataWriter_writeString
    \/ dataWriter_writeUInt

SpecWrite == InitWrite /\ [][NextWrite]_vars

\* A value pointer into any short region, and the reader's functions on it.
InitValue ==
    /\ observe = FALSE
    /\ private = FALSE
    /\ fileTx = [f \in Files |-> NoTx]
    /\ pc = [t \in Threads |-> "idle"]
    /\ tx = [t \in Threads |-> NoTransaction]
    /\ dbHandle = [d \in DBs |-> RealHandle(d)]
    /\ log = [f \in Files |-> <<>>]
    /\ commits = [f \in Files |-> {0}]
    /\ seqHigh = [f \in Files |-> 0]
    /\ last = [t |-> 0, op |-> "none", status |-> FDB_RESULT_SUCCESS, seq |-> 0,
               arg |-> 0]
    /\ lastRead = NoRead
    /\ eStored = {}
    /\ enum = NoEnum
    /\ unset \in {0, 5}
    /\ writer = NewWriter(unset)
    /\ externStrings = NoExtern
    /\ dValue = VNull
    /\ dTodo = <<>>
    /\ dDone = <<>>
    /\ rBuf \in Regions
    /\ rGot = NoCall
    /\ reg = NoReg

NextValue ==
    \E p \in 0..(MaxBytes - 1) :
        \/ Call_type(p)
        \/ Call_next(p)
        \/ Call_asBool(p)
        \/ Call_asInt(p)
        \/ Call_asDouble(p)
        \/ Call_asString(p)
        \/ Call_asArray(p)
        \/ Call_asDict(p)
        \/ \E key \in DictKeys : Call_get(p, key)

SpecValue == InitValue /\ [][NextValue]_vars

\* ------------------------------------------------------------------ claims
\* A thread's Transaction is installed in its file's slot: it has returned from
\* beginTransaction and has not yet run endTransaction.
InSlot(t) == pc[t] \in {"active", "dtor_end"}

TxFile(t) == DbFile(tx[t].db)

C1_Inv ==
    \A t, u \in Threads :
        InSlot(t) /\ InSlot(u) /\ TxFile(t) = TxFile(u)
            => t = u /\ fileTx[TxFile(t)] = t

C1_Step ==
    \A t \in Threads :
        ~InSlot(t) /\ pc'[t] \in {"active", "dtor_end"}
            => /\ fileTx[DbFile(tx'[t].db)] = NoTx
               /\ fileTx'[DbFile(tx'[t].db)] = t

\* C1: for every File at most one Transaction is installed in the slot, for
\* any threads and Databases on the path, and a thread that begins a
\* Transaction returns from beginTransaction only when the slot is empty.
C1_TransactionExclusion == []C1_Inv /\ [][C1_Step]_vars

\* Two threads on one file, one holding the slot and the other waiting for it.
C1_Witness ==
    \E t, u \in Threads :
        /\ pc[t] = "active" /\ pc[u] = "waiting"
        /\ TxFile(t) = TxFile(u) /\ fileTx[TxFile(t)] = t

C2_Step(t) ==
    LET f == TxFile(t)
    IN  /\ pc[t] = "active" /\ pc'[t] # "active" => pc'[t] = "dtor_end"
        /\ pc[t] = "dtor_end" /\ pc'[t] # "dtor_end"
              => /\ pc'[t] = "dtor_check"
                 /\ fileTx'[f] = NoTx
                 /\ Waiters(f) # {} => \E w \in Waiters(f) : pc'[w] = "woken"
        /\ pc[t] \in {"active", "dtor_end", "dtor_check"} /\ pc'[t] = "idle"
              => pc[t] = "dtor_check" /\ fileTx[f] # t

\* C2: destroying a Transaction always empties the file's slot and signals the
\* condition variable, in every state and also when the destructor's commit or
\* rollback fails; the commit error is thrown only after the release.
C2_DestructorReleases == [][\A t \in Threads : C2_Step(t)]_vars

\* A failed commit's error about to be thrown, the slot empty and a waiter woken.
C2_Witness ==
    \E t, w \in Threads :
        /\ pc[t] = "dtor_check" /\ tx[t].status # FDB_RESULT_SUCCESS
        /\ tx[t].entry > 0 /\ fileTx[TxFile(t)] = NoTx
        /\ pc[w] = "woken" /\ TxFile(w) = TxFile(t)

C3_Step(t) ==
    LET T == tx[t]
        D == tx'[t]
        f == TxFile(t)
        ok == D.status = FDB_RESULT_SUCCESS
        asBefore == log'[f] = log[f]
        cutBack == Len(log'[f]) = T.startSequence /\ commits'[f] \subseteq commits[f]
    IN  /\ pc[t] = "active" /\ pc'[t] = "dtor_end" =>
              /\ T.state = 0 =>
                    /\ ~D.committed /\ ~D.rolledBack /\ ok /\ D.state = 0
                    /\ asBefore /\ commits'[f] = commits[f]
              /\ T.state > 0 =>
                    /\ D.committed
                    /\ D.rolledBack <=> ~ok
                    /\ ok => /\ D.state > 0 /\ asBefore
                             /\ commits'[f] = commits[f] \cup {LastSeq(f)}
                    /\ ~ok => /\ D.state < 0
                              /\ (asBefore /\ commits'[f] = commits[f]) \/ cutBack
              /\ T.state < 0 =>
                    /\ ~D.committed /\ D.rolledBack /\ ok /\ D.state < 0
                    /\ (asBefore /\ commits'[f] = commits[f]) \/ cutBack
        /\ pc[t] = "dtor_check" /\ pc'[t] = "idle" =>
              /\ last'.op = "dtor"
              /\ last'.status = T.status

\* C3: a destroyed Transaction commits if dirty and rolls back only if that
\* commit fails (the state becomes failed, the rollback is to startSequence, the
\* commit error is surfaced); if failed it rolls back to startSequence and never
\* commits; if neutral it neither commits nor rolls back.
C3_DestructorCommitsOrRollsBack == [][\A t \in Threads : C3_Step(t)]_vars

\* A dirty transaction whose commit failed: rolled back to startSequence.
C3_Witness ==
    /\ pc[1] = "dtor_end" /\ tx[1].entry > 0 /\ tx[1].committed
    /\ tx[1].status # FDB_RESULT_SUCCESS /\ tx[1].rolledBack /\ tx[1].state < 0
    /\ LastSeq(TxFile(1)) = tx[1].startSequence
    /\ seqHigh[TxFile(1)] > tx[1].startSequence

\* C4: a transaction that wrote one document and then had del(sequence 0)
\* fail ends by rolling back, not by committing: after the destructor the
\* file's last sequence is startSequence.
C4_FailedDelRollsBack ==
    [][\A t \in Threads :
          /\ pc[t] = "active" /\ pc'[t] = "dtor_end"
          /\ last.t = t /\ last.op = "del" /\ last.arg = 0
          /\ last.status # FDB_RESULT_SUCCESS
          /\ LastSeq(TxFile(t)) = tx[t].startSequence + 1
          => /\ ~tx'[t].committed
             /\ tx'[t].rolledBack
             /\ LastSeq(TxFile(t)) \notin commits'[TxFile(t)]]_vars

\* The write of such a transaction, committed by the destructor.
C4_Witness ==
    \E t \in Threads :
        /\ pc[t] = "dtor_end"
        /\ last.t = t /\ last.op = "del" /\ last.arg = 0
        /\ last.status # FDB_RESULT_SUCCESS
        /\ tx[t].committed /\ tx[t].status = FDB_RESULT_SUCCESS
        /\ LastSeq(TxFile(t)) = tx[t].startSequence + 1
        /\ LastSeq(TxFile(t)) \in commits[TxFile(t)]

\* A set or del of thread t has added a record to its file.
Wrote(t) ==
    /\ pc[t] = "active" /\ pc'[t] = "active"
    /\ Len(log'[TxFile(t)]) = LastSeq(TxFile(t)) + 1

C6_ReadsSeeCommittedOnly ==
    lastRead.op \in {"read", "get"} /\ lastRead.threw = "none"
        => ~lastRead.uncommitted

\* A read through the transaction's own Database returning the uncommitted body.
C6_Witness ==
    /\ lastRead.op = "read" /\ lastRead.ret /\ lastRead.uncommitted
    /\ pc[1] = "active" /\ tx[1].db = lastRead.db /\ ~private

\* C7: in the docID-set enumerator a requested ID that is not in the store
\* yields a placeholder carrying that ID, never an error or an early end,
\* whatever the iterator's seek and next return for it short of an I/O failure.
C7_AbsentIDYieldsPlaceholder ==
    enum.kind = "set" /\ enum.lastID # 0 /\ enum.lastID \notin eStored
    /\ ~enum.ioError
        => enum.ret = "true" /\ enum.docP = Placeholder(enum.lastID)

\* An ID after every stored key, for which the seek failed: next() threw.
C7_Witness ==
    /\ enum.kind = "set" /\ enum.lastID # 0 /\ ~enum.ioError
    /\ eStored # {} /\ \A k \in eStored : k < enum.lastID
    /\ enum.ret = "threw" /\ enum.docP = NullDoc

YieldedKeys(e) == [k \in 1..Len(e.yield) |-> e.yield[k].key]

\* C8: enumerate(docIDs) yields one document per requested ID in ascending
\* order whatever the order passed, the first by construction and the others
\* by next() returning true, and next() after the last ID returns false; with
\* an empty list it yields nothing and next() returns false.
C8_OneDocumentPerID ==
    /\ enum.kind = "set" /\ ~enum.ioError =>
          /\ enum.ret # "threw"
          /\ Len(enum.yield) = enum.cur - 1
          /\ YieldedKeys(enum) = SubSeq(Sort(enum.req), 1, Len(enum.yield))
          /\ enum.ret = "true" => enum.docP.key = Sort(enum.req)[enum.cur - 1]
          /\ enum.ret = "false" /\ enum.cur <= Len(enum.req) => enum.iter = "null"
    /\ enum.kind = "empty" =>
          enum.yield = <<>> /\ enum.ret \notin {"true", "threw"}

\* IDs passed out of order, the greater one after every stored key: the
\* enumeration threw at it.
C8_Witness ==
    /\ enum.kind = "set" /\ ~enum.ioError /\ enum.req = <<2, 1>>
    /\ eStored = {1} /\ YieldedKeys(enum) = <<1>>
    /\ enum.cur = 3 /\ enum.ret = "threw"

\* C9: a read of an absent key or sequence never raises an error.
C9_AbsentNeverThrows ==
    /\ lastRead.threw # FDB_RESULT_KEY_NOT_FOUND
    /\ lastRead.op = "read" /\ lastRead.threw = "none" /\ lastRead.doc.seq = 0
          => ~lastRead.ret
    /\ lastRead.op = "get" /\ lastRead.threw = "none" /\ lastRead.doc.seq = 0
          => lastRead.doc = NoDoc(lastRead.arg)

\* get(sequence) of a sequence the file does not hold: key-not-found thrown.
C9_Witness ==
    /\ lastRead.op = "getSeq" /\ lastRead.threw = FDB_RESULT_KEY_NOT_FOUND
    /\ lastRead.arg > LastSeq(DbFile(lastRead.db))

\* C10: a value of nulls, booleans, integers, dates, strings, data, arrays and
\* dicts, encoded by the writer and read back with the reader, is the value
\* that was encoded.
C10_RoundTrip == dTodo = <<>> => Decoded = Got(dValue, Len(writer.out))

\* The array of the same shareable string twice: encoded, and not read back.
C10_Witness ==
    /\ dTodo = <<>> /\ ~externStrings.bound
    /\ dValue = VArray(<<VString(StrNote), VString(StrNote)>>)
    /\ ~Decoded.ok
    /\ ~asString(writer.out, 2, unset).ok
    /\ ~value_next(writer.out, 8, unset).ok

\* The calls of dDone that wrote the string str: writeString and writeKey.
Occurrences(str) ==
    {k \in 1..Len(dDone) :
        dDone[k].op \in {"writeString", "writeKey"} /\ dDone[k].s = str}

Shareable(str) ==
    /\ Len(str) >= kMinSharedStringLength /\ Len(str) <= kMaxSharedStringLength
    /\ ~(externStrings.bound /\ ExternID(externStrings, str) # {})

\* The bytes of _out from offset p up to offset q.
Region(p, q) == SubSeq(writer.out, p + 1, q)

\* C11: the same shareable string written twice with one writer, wherever the
\* first occurrence lies: the first occurrence is the one full encoding, tagged
\* kSharedStringCode, and the second is kSharedStringRefCode with the varint
\* of the distance between the two offsets, without the string's bytes.
C11_SharedOnceThenRef ==
    \A str \in Strings :
        Shareable(str) /\ Cardinality(Occurrences(str)) = 2 =>
            LET i == SetMin(Occurrences(str))
                j == SetMax(Occurrences(str))
            IN  /\ Region(dDone[i].at, dDone[i].end)
                      = <<kSharedStringCode>> \o PutUVarInt(Len(str)) \o str
                /\ Region(dDone[j].at, dDone[j].end)
                      = <<kSharedStringRefCode>>
                        \o PutUVarInt(dDone[j].at - dDone[i].at)

\* "note" written twice from offset 0 on: two full encodings, neither shared.
C11_Witness ==
    /\ dTodo = <<>> /\ Len(dDone) = 2
    /\ Occurrences(StrNote) = {1, 2} /\ dDone[1].at = 0
    /\ writer.out = <<kStringCode, 4>> \o StrNote \o <<kStringCode, 4>> \o StrNote

\* The same, for a first occurrence that is not at offset 0.
C11_SharedAfterOffset0 ==
    \A str \in Strings :
        Shareable(str) /\ Cardinality(Occurrences(str)) = 2
        /\ dDone[SetMin(Occurrences(str))].at > 0 =>
            LET i == SetMin(Occurrences(str))
                j == SetMax(Occurrences(str))
            IN  /\ Region(dDone[i].at, dDone[i].end)
                      = <<kSharedStringCode>> \o PutUVarInt(Len(str)) \o str
                /\ Region(dDone[j].at, dDone[j].end)
                      = <<kSharedStringRefCode>>
                        \o PutUVarInt(dDone[j].at - dDone[i].at)

\* The call, among those that encode the dict v, that writes its i-th key.
RECURSIVE KeyCall(_, _)
KeyCall(v, i) ==
    IF i = 1 THEN 2 ELSE KeyCall(v, i - 1) + 1 + Len(Calls(v.items[i - 1]))

\* dict::get(k, hashCode(k)) on the dict the writer has encoded at offset 0.
Lookup(k) == dict_get(writer.out, 0, k, hashCode(k), unset)

\* C12: in a dict encoded by the writer with distinct keys, get(k, hashCode(k))
\* returns the value written for k, for each key k, and not-found for every
\* key that is not in the dict; also when keys share a hash and when a key
\* equals a string written elsewhere in the document.
C12_DictGetFindsEveryKey ==
    dTodo = <<>> /\ dValue.t = "dict" =>
        /\ \A i \in 1..Len(dValue.keys) :
              /\ Lookup(dValue.keys[i]).ok /\ Lookup(dValue.keys[i]).found
              /\ Lookup(dValue.keys[i]).pos = dDone[KeyCall(dValue, i)].end
        /\ \A k \in Strings :
              (\A i \in 1..Len(dValue.keys) : dValue.keys[i] # k)
                  => Lookup(k).ok /\ ~Lookup(k).found

\* {"k": "note", "note": null}: the key "note" is written as a reference to the
\* value before it, and get("note") does not return its value.
C12_Witness ==
    /\ dTodo = <<>> /\ ~externStrings.bound
    /\ dValue = VDict(<<StrK, StrNote>>, <<VString(StrNote), VNull>>)
    /\ ByteAt(writer.out, dDone[KeyCall(dValue, 2)].at) = kSharedStringRefCode
    /\ ~(Lookup(StrNote).ok /\ Lookup(StrNote).found)

\* A value in which no shareable string is written twice, no string is in the
\* external table and there is no date: one written with the type codes that
\* value::next knows.
RECURSIVE HasDate(_)
HasDate(v) ==
    \/ v.t = "date"
    \/ \E k \in 1..Len(v.items) : HasDate(v.items[k])

RECURSIVE StringsOf(_)
StringsOf(v) ==
    CASE v.t = "string" -> <<v.s>>
      [] v.t \in {"array", "dict"} ->
            v.keys \o (IF v.items = <<>> THEN <<>>
                       ELSE StringsOf(Head(v.items))
                            \o StringsOf([v EXCEPT !.keys = <<>>,
                                                   !.items = Tail(v.items)]))
      [] OTHER -> <<>>

PlainStrings(v) ==
    /\ ~HasDate(v)
    /\ \A j, k \in 1..Len(StringsOf(v)) :
          j # k /\ StringsOf(v)[j] = StringsOf(v)[k]
              => Len(StringsOf(v)[j]) < kMinSharedStringLength
    /\ \A k \in 1..Len(StringsOf(v)) :
          ~(externStrings.bound /\ ExternID(externStrings, StringsOf(v)[k]) # {})

\* C12 for the dicts in which every string is written as a plain string.
C12_PlainDictGetFindsEveryKey == PlainStrings(dValue) => C12_DictGetFindsEveryKey

\* The 16-bit number at offset p of _out, as the writer's machine stores it.
Slot(p) == ByteAt(writer.out, p) + 256 * ByteAt(writer.out, p + 1)

\* v having been encoded by the calls from the c-th on: every dict in it has
\* the hashCode of its i-th key in its i-th slot.
RECURSIVE SlotsHoldHashes(_, _)
SlotsHoldHashes(v, c) ==
    LET index == dDone[c].at + 1 + Len(PutUVarInt(Len(v.items)))
        keyCall(i) == c + KeyCall(v, i) - 1
    IN  CASE v.t = "dict" ->
                \A i \in 1..Len(v.keys) :
                    /\ Slot(index + 2 * (i - 1)) = hashCode(v.keys[i])
                    /\ dDone[keyCall(i)].op = "writeKey"
                    /\ SlotsHoldHashes(v.items[i], keyCall(i) + 1)
          [] OTHER -> TRUE

\* C13: after beginDict(n), n keys and values, and endDict, the i-th slot of
\* the dict's hash index holds the low 16 bits of the hash of its i-th key, at
\* every nesting depth: a nested dict leaves the parent's slots alone, and the
\* parent's next key goes into the parent's next slot.
C13_SlotsHoldKeyHashes == dTodo = <<>> => SlotsHoldHashes(dValue, 1)

\* A dict nested three deep, each parent with a key after its nested dict.
C13_Witness ==
    /\ dTodo = <<>> /\ dValue \in Deep
    /\ Len(writer.savedIndexPos) = 0
    /\ Slot(2) = hashCode(StrK) /\ Slot(4) = hashCode(StrNote)
    /\ Slot(11) = hashCode(StrL) /\ Slot(13) = hashCode(StrNote)
    /\ Slot(21) = hashCode(StrK)
    /\ hashCode(StrNote) # hashCode(StrK)

\* The class the table of type codes gives a code; those it gives none are
\* left out.
ClassOfCode(code) ==
    CASE code = kNullCode -> "kNull"
      [] code \in {kFalseCode, kTrueCode} -> "kBoolean"
      [] code \in kInt8Code..kRawNumberCode -> "kNumber"
      [] code \in kStringCode..kExternStringRefCode -> "kString"
      [] code = kDataCode -> "kData"
      [] code = kArrayCode -> "kArray"
      [] code = kDictCode -> "kDict"
      [] code > kDictCode -> "kNull"

\* The class of the value a call on the writer emits.
ClassOfCall(op) ==
    CASE op = "writeNull" -> "kNull"
      [] op = "writeBool" -> "kBoolean"
      [] op = "writeInt" -> "kNumber"
      [] op = "writeString" -> "kString"
      [] op = "writeKey" -> "kString"
      [] op = "writeData" -> "kData"
      [] op = "beginArray" -> "kArray"
      [] op = "beginDict" -> "kDict"

\* C14: value::type() gives every type code of the table its class and every
\* code outside the table null; so the value written by writeData, beginArray
\* or beginDict is reported as data, array or dict.
C14_TypeIsClassOfCode ==
    /\ \A k \in 1..Len(dDone) :
          dDone[k].op \notin {"writeDate", "endDict"}
              => type(writer.out, dDone[k].at) = ClassOfCall(dDone[k].op)
    /\ \A p \in 0..(Len(writer.out) - 1) :
          ByteAt(writer.out, p) # kDateCode
              => type(writer.out, p) = ClassOfCode(ByteAt(writer.out, p))

\* A data value, an array and a dict written, each reported as null.
C14_Witness ==
    /\ dTodo = <<>> /\ dValue = VArray(<<VData(<<1, 2>>), VDict(<<>>, <<>>)>>)
    /\ ByteAt(writer.out, 0) = kArrayCode /\ type(writer.out, 0) = "kNull"
    /\ ByteAt(writer.out, 2) = kDataCode /\ type(writer.out, 2) = "kNull"
    /\ ByteAt(writer.out, 6) = kDictCode /\ type(writer.out, 6) = "kNull"

\* C15: writeUInt(u) emits the bytes of writeInt(u) for every u < 2^63,
\* 2^63 - 1 included, and kUInt64Code and the 8 bytes of u for every u >= 2^63.
C15_WriteUIntAsIntBelow2To63 ==
    \A k \in 1..Len(dDone) :
        dDone[k].op = "writeUInt" =>
            Region(dDone[k].at, dDone[k].end) =
                IF dDone[k].i[8] < 128
                THEN writeInt(NewWriter(0), dDone[k].i).out
                ELSE <<kUInt64Code>> \o dDone[k].i

\* writeUInt(2^63 - 1): kUInt64Code and 8 bytes, where writeInt emits
\* kInt64Code and the same 8 bytes.
C15_Witness ==
    /\ dDone # <<>> /\ dDone[1].op = "writeUInt" /\ dDone[1].i = INT64_MAX
    /\ Region(0, dDone[1].end) = <<kUInt64Code>> \o INT64_MAX
    /\ writeInt(NewWriter(0), INT64_MAX).out = <<kInt64Code>> \o INT64_MAX

\* The same with 2^63 - 1 on the side of kUInt64Code, as the comparison
\* u < INT64_MAX puts it.
C15_WriteUIntAsIntBelowInt64Max ==
    \A k \in 1..Len(dDone) :
        dDone[k].op = "writeUInt" =>
            Region(dDone[k].at, dDone[k].end) =
                IF dDone[k].i[8] < 128 /\ dDone[k].i # INT64_MAX
                THEN writeInt(NewWriter(0), dDone[k].i).out
                ELSE <<kUInt64Code>> \o dDone[k].i

\* The paths that have an entry in sFileMap.
Entered == {p \in Paths : reg.sFileMap[p] # 0}

C16_Inv ==
    /\ \A d \in reg.dbs : d.file # 0 /\ d.file = reg.sFileMap[d.path]
    /\ \A t \in Threads :
          reg.th[t].pc \in {"return", "opening"}
              => reg.th[t].file # 0 /\ reg.th[t].file = reg.sFileMap[reg.th[t].path]
    /\ Cardinality(Entered) = reg.made
    /\ \A p, q \in Entered : reg.sFileMap[p] = reg.sFileMap[q] => p = q

C16_Step ==
    \A p \in Entered : reg'.sFileMap[p] = reg.sFileMap[p]

\* C16: File::forPath returns the same File for every call with one path, from
\* any thread: concurrent first opens make one entry, every Database on the
\* path refers to it, and an entry is never removed or replaced.
C16_OneFilePerPath == []C16_Inv /\ [][C16_Step]_vars

\* Two threads that both came to open a path nobody had opened, holding the
\* one File made for it.
C16_Witness ==
    \E t, u \in Threads :
        /\ t # u /\ reg.dbs = {} /\ reg.made = 1
        /\ reg.th[t].pc = "opening" /\ reg.th[u].pc = "opening"
        /\ reg.th[t].path = reg.th[u].path /\ reg.th[t].file = reg.th[u].file

\* The state Transaction::check leaves after an operation of thread t that
\* returned (status success) or threw status.
C17_Step(t, ops) ==
    /\ pc[t] = "active" /\ pc'[t] = "active"
    /\ last'.t = t /\ last'.op \in ops
    => tx'[t].state = IF last'.status # FDB_RESULT_SUCCESS THEN -1
                       ELSE IF tx[t].state = 0 THEN 1
                       ELSE tx[t].state

\* C17: every write operation of a Transaction (write, set, del, rollbackTo,
\* commit) passes the backing store's status through check(status): success
\* makes a neutral transaction dirty and leaves a dirty one dirty, any other
\* status makes it failed, and the error reaches the caller.
C17_EveryWriteChecksStatus ==
    [][\A t \in Threads :
          C17_Step(t, {"set", "del", "rollbackTo", "commit"})]_vars

\* del(sequence) has thrown and the transaction, dirty before, is still dirty.
C17_Witness ==
    \E t \in Threads :
        /\ pc[t] = "active" /\ last.t = t /\ last.op = "del"
        /\ last.status # FDB_RESULT_SUCCESS /\ tx[t].state = 1

\* The same for set, rollbackTo and commit, and for a del that threw nothing.
C17_WritesButDelCheckStatus ==
    [][\A t \in Threads :
          /\ C17_Step(t, {"set", "rollbackTo", "commit"})
          /\ last'.status = FDB_RESULT_SUCCESS => C17_Step(t, {"del"})]_vars

\* The destructor of thread t has called fdb_rollback and the file still holds
\* records above startSequence: the rollback failed. (No other thread writes.)
RollbackFailed(t) ==
    /\ pc[t] = "dtor_check" /\ tx[t].rolledBack
    /\ LastSeq(TxFile(t)) > tx[t].startSequence

\* C18: when the rollback at the end of a failed Transaction fails, the slot
\* is still released and the destructor's caller sees an error.
C18_FailedRollbackIsSeen ==
    \A t \in Threads :
        RollbackFailed(t) =>
            /\ fileTx[TxFile(t)] = NoTx
            /\ tx[t].status # FDB_RESULT_SUCCESS

\* A transaction that had failed before its end: its rollback failed, the slot
\* is free, and check(status) is about to throw nothing.
C18_Witness ==
    \E t \in Threads :
        /\ RollbackFailed(t) /\ tx[t].entry < 0 /\ ~tx[t].committed
        /\ fileTx[TxFile(t)] = NoTx
        /\ tx[t].status = FDB_RESULT_SUCCESS

\* What does hold then: the slot is released, and the error of a commit the
\* destructor made is seen.
C18_ReleasedAndCommitErrorSeen ==
    \A t \in Threads :
        RollbackFailed(t) =>
            /\ fileTx[TxFile(t)] = NoTx
            /\ tx[t].committed => tx[t].status # FDB_RESULT_SUCCESS

\* C19: a Transaction's startSequence is the file's last sequence at the
\* moment it takes the slot: it is read after the wait and under the mutex,
\* and nothing is written or committed between the reading and the
\* installation in the slot, for any interleaving of threads.
C19_StartSequenceAtAcquire ==
    [][\A t \in Threads :
          ~InSlot(t) /\ pc'[t] = "active" =>
              LET f == DbFile(tx'[t].db)
              IN  /\ tx'[t].startSequence = Len(log'[f])
                  /\ fileTx[f] = NoTx /\ fileTx'[f] = t
                  /\ log' = log /\ commits' = commits
                  /\ \A u \in Threads \ {t} :
                        InSlot(u) => DbFile(tx[u].db) # f]_vars

\* A Transaction begun after another thread's write, the other thread now
\* waiting for it: its startSequence is the sequence of that write.
C19_Witness ==
    \E t, u \in Threads :
        /\ pc[t] = "active" /\ tx[t].state = 0 /\ pc[u] = "waiting"
        /\ TxFile(t) = 1 /\ TxFile(u) = 1
        /\ LastSeq(1) = 1 /\ tx[t].startSequence = 1

C20_Inv ==
    /\ enum.iter = "null" => enum.docP = NullDoc
    /\ enum.ret = "false" => enum.iter = "null"

\* A next() on an enumerator whose iterator is closed: false, with the
\* enumerator and the position in the store as they were.
C20_Step ==
    enum.kind # "none" /\ enum.iter = "null" /\ enum'.ret # "closed"
        => enum' = [enum EXCEPT !.ret = "false"]

\* C20: once next() has returned false the enumerator is terminal: the
\* iterator is closed, no document is held, and every later next() returns
\* false without touching the store; a closed iterator always means no held
\* document. For the range, the docID-set and the empty-list enumerators.
C20_TerminalStaysTerminal == []C20_Inv /\ [][C20_Step]_vars

\* A docID-set enumerator that yielded its documents and then returned false.
C20_Witness ==
    /\ enum.kind = "set" /\ enum.ret = "false" /\ enum.iter = "null"
    /\ Len(enum.yield) = MaxIDs /\ enum.docP = NullDoc

\* The calls of dDone that emitted one whole value.
ValueCalls ==
    {k \in 1..Len(dDone) :
        dDone[k].op \in {"writeNull", "writeBool", "writeInt", "writeUInt",
                         "writeDate", "writeData", "writeString", "writeKey"}}

\* next() of each value emitted so far ends where the writer's call ended, and
\* next() of the finished top-level value ends at the end of the output.
NextMatchesWriter ==
    /\ \A k \in ValueCalls :
          value_next(writer.out, dDone[k].at, unset) = Ok(dDone[k].end)
    /\ dTodo = <<>> /\ dDone # <<>> =>
          value_next(writer.out, 0, unset) = Ok(Len(writer.out))

\* C21: value::next() of every value the writer emitted, of whichever type
\* code, succeeds and returns the offset one past the bytes the writer
\* emitted for that value; arrays and dicts end after their last child.
C21_NextAdvancesByEmitted == NextMatchesWriter

\* A date, written as kDateCode and its varint: next() throws.
C21_Witness ==
    /\ dValue = VDate(200) /\ dTodo = <<>> /\ Len(dDone) = 1
    /\ writer.out = <<kDateCode, 200, 1>>
    /\ value_next(writer.out, 0, unset) = Throw("bad typecode")

\* The same, for the values written with the type codes that value::next
\* names and without a string patched to kSharedStringCode.
C21_NextOfPlainValues == PlainStrings(dValue) => NextMatchesWriter

\* The calls of dDone that wrote a string into the output itself, not as an
\* index of the external table.
InlineStringCalls ==
    {k \in 1..Len(dDone) :
        /\ dDone[k].op \in {"writeString", "writeKey"}
        /\ ~(externStrings.bound /\ ExternID(externStrings, dDone[k].s) # {})}

\* C22: asString() of every string the writer emitted into the output, as a
\* first occurrence (kStringCode), as a first occurrence patched to
\* kSharedStringCode, or as a back-reference (kSharedStringRefCode), returns
\* the bytes that were passed to the writer.
C22_AsStringReturnsWritten ==
    \A k \in InlineStringCalls :
        asString(writer.out, dDone[k].at, unset)
            = [ok |-> TRUE, s |-> dDone[k].s, err |-> ""]

\* A null, then "note" twice: the first patched to kSharedStringCode, the
\* second a back-reference, and asString throws on both.
C22_Witness ==
    /\ dTodo = <<>> /\ Len(dDone) = 3 /\ Occurrences(StrNote) = {2, 3}
    /\ writer.out = <<kNullCode, kSharedStringCode, 4>> \o StrNote
                    \o <<kSharedStringRefCode, 6>>
    /\ asString(writer.out, 1, unset).err = "invalid shared-string"
    /\ asString(writer.out, 7, unset).err = "value is not a string"

\* The same, for the strings still tagged kStringCode.
C22_AsStringOfPlainStrings ==
    \A k \in InlineStringCalls :
        ByteAt(writer.out, dDone[k].at) = kStringCode =>
            asString(writer.out, dDone[k].at, unset)
                = [ok |-> TRUE, s |-> dDone[k].s, err |-> ""]

\* The type codes whose value starts with a varint parameter.
ParamCodes ==
    {kRawNumberCode, kDateCode, kStringCode, kSharedStringCode,
     kSharedStringRefCode, kExternStringCode, kExternStringRefCode, kDataCode,
     kArrayCode, kDictCode}

\* The value at offset p of b has a type code outside the table.
BadCode(b, p) == ByteAt(b, p) > kDictCode

\* Its varint parameter is malformed: GetUVarInt consumes 0 bytes.
BadVarint(b, p) ==
    ByteAt(b, p) \in ParamCodes /\ GetUVarInt(b, p + 1, unset).len = 0

\* It is a shared-string reference that does not point at a shared string.
BadRef(b, p) ==
    /\ ByteAt(b, p) = kSharedStringRefCode /\ ~BadVarint(b, p)
    /\ ByteAt(b, p - GetUVarInt(b, p + 1, unset).n) # kSharedStringCode

Accessors ==
    {"next", "asBool", "asInt", "asDouble", "asString", "asArray", "asDict",
     "get"}

\* C23: next, asBool, asInt, asDouble, asString, asArray, asDict and
\* dict::get, called on a value whose type code is outside the table, whose
\* varint parameter is malformed, or which is a shared-string reference that
\* does not point at a shared string, fail instead of returning a result.
C23_MalformedValueFails ==
    rGot.fn \in Accessors
    /\ (BadCode(rBuf, rGot.p) \/ BadVarint(rBuf, rGot.p) \/ BadRef(rBuf, rGot.p))
        => ~rGot.res.ok

\* next() of a string whose length varint has no last byte: a pointer is
\* returned.
C23_Witness ==
    /\ rBuf = <<kStringCode, 128>> /\ BadVarint(rBuf, 0)
    /\ rGot.fn = "next" /\ rGot.p = 0
    /\ rGot.res = Ok(1 + unset)

\* What does fail: every accessor but asBool on a type code outside the
\* table, and next and asString on a shared-string reference.
C23_BadCodeFails ==
    /\ rGot.fn \in Accessors \ {"asBool"} /\ BadCode(rBuf, rGot.p)
          => ~rGot.res.ok
    /\ rGot.fn \in {"next", "asString"}
       /\ ByteAt(rBuf, rGot.p) = kSharedStringRefCode
          => ~rGot.res.ok

\* The bytes that follow the type code of a fixed-size value.
FixedSize(code) ==
    CASE code = kInt8Code -> 1
      [] code = kInt16Code -> 2
      [] code \in {kInt32Code, kFloat32Code} -> 4
      [] code \in {kInt64Code, kUInt64Code, kFloat64Code} -> 8
      [] OTHER -> 0

\* The value at offset p of b is a value of the table that lies in b: its
\* fixed bytes, or its varint and the bytes the varint counts.
Complete(b, p) ==
    LET code == ByteAt(b, p)
        r == getParam(b, p, unset)
    IN  /\ code >= kNullCode /\ code <= kDictCode
        /\ p + 1 + FixedSize(code) <= Len(b)
        /\ ~BadVarint(b, p)
        /\ code \in {kStringCode, kRawNumberCode, kDataCode}
              => r.after + r.n <= Len(b)

\* C24: asInt returns an integer for every value whose type() is number and
\* fails for every value whose type() is not number; asBool returns a boolean
\* for every value, without failing.
C24_AsIntIffNumber ==
    /\ rGot.fn = "asInt" /\ Complete(rBuf, rGot.p)
          => (rGot.res.ok <=> type(rBuf, rGot.p) = "kNumber")
    /\ rGot.fn = "asBool" /\ Complete(rBuf, rGot.p) => rGot.res.ok

\* asInt of a UInt64, a value whose type() is number: it throws.
C24_Witness ==
    /\ rBuf = <<kUInt64Code>> \o I64(0)
    /\ type(rBuf, 0) = "kNumber"
    /\ rGot.fn = "asInt" /\ rGot.p = 0
    /\ rGot.res.err = "value is not a number"

\* What asInt and asBool do: asInt returns the integer stored for the four
\* signed integer codes and an integer for the two float codes, 0 or 1 for
\* null and the booleans, and throws for every other code; asBool throws for
\* UInt64 and raw numbers only.
C24_AsIntOfIntAndFloatCodes ==
    LET code == ByteAt(rBuf, rGot.p)
        bytes == Bytes(rBuf, rGot.p + 1, FixedSize(code))
    IN  /\ rGot.fn = "asInt" /\ Complete(rBuf, rGot.p) =>
              /\ rGot.res.ok <=>
                    code \in {kNullCode, kFalseCode, kTrueCode, kInt8Code,
                              kInt16Code, kInt32Code, kInt64Code, kFloat32Code,
                              kFloat64Code}
              /\ code \in {kInt8Code, kInt16Code, kInt32Code, kInt64Code}
                    => rGot.res.i = SignExtend(bytes)
        /\ rGot.fn = "asBool" /\ Complete(rBuf, rGot.p) =>
              (rGot.res.ok <=> code \notin {kUInt64Code, kRawNumberCode})

\* The call that wrote a reference, and the call whose string it refers to.
RefersTo(k, j) ==
    LET at == dDone[k].at
        d == GetUVarInt(writer.out, at + 1, unset)
        str == dDone[k].s
    IN  /\ d.len > 0 /\ at + 1 + d.len = dDone[k].end
        /\ j < k /\ dDone[j].at = at - d.n
        /\ dDone[j].s = str
        /\ Region(dDone[j].at, dDone[j].end)
              = <<kSharedStringCode>> \o PutUVarInt(Len(str)) \o str

\* C25: after any calls on the writer, each kSharedStringRefCode of the output
\* holds the distance back to the tag of an earlier, complete string encoding
\* of the same output, tagged kSharedStringCode, whose bytes are the string
\* that was passed to the call that wrote the reference.
C25_RefResolvesToSharedString ==
    \A k \in InlineStringCalls :
        ByteAt(writer.out, dDone[k].at) = kSharedStringRefCode
            => \E j \in InlineStringCalls : RefersTo(k, j)

\* An array of "note" twice has been written: item 2 is a reference to item 1.
C25_Witness ==
    /\ dTodo = <<>> /\ ~externStrings.bound
    /\ dValue = VArray(<<VString(StrNote), VString(StrNote)>>)
    /\ ByteAt(writer.out, dDone[3].at) = kSharedStringRefCode
    /\ RefersTo(3, 2)

\* The beginDict call, among the first n calls made, of the dict that is open
\* after them: the last one not yet matched by an endDict (0 if there is none).
RECURSIVE OpenDict(_, _)
OpenDict(n, closed) ==
    IF n = 0 THEN 0
    ELSE IF dDone[n].op = "endDict" THEN OpenDict(n - 1, closed + 1)
    ELSE IF dDone[n].op = "beginDict"
    THEN (IF closed = 0 THEN n ELSE OpenDict(n - 1, closed - 1))
    ELSE OpenDict(n - 1, closed)

\* The offsets of the hash slot the next writeKey fills: the slot at _indexPos,
\* if that is a slot of the open dict.
NextSlot ==
    LET c == OpenDict(Len(dDone), 0)
        fk == firstKey(writer.out, dDone[c].at, unset)
        index == fk.pos - 2 * fk.count
    IN  IF c # 0 /\ \E j \in 0..(fk.count - 1) : writer.indexPos = index + 2 * j
        THEN {writer.indexPos, writer.indexPos + 1}
        ELSE {}

\* The offsets of the tags of the strings written so far that are str.
TagsOf(str) == {dDone[j].at : j \in {i \in InlineStringCalls : dDone[i].s = str}}

\* The offsets below the old end of the output whose byte a step changes.
Changed ==
    {q \in 0..(Len(writer.out) - 1) : writer'.out[q + 1] # writer.out[q + 1]}

\* Each offset of the shared-string map is the offset of the tag of a complete
\* encoding of its string.
C26_Inv ==
    \A str \in Strings :
        writer.sharedStrings[str] > 0 =>
            \E j \in InlineStringCalls :
                /\ dDone[j].s = str /\ dDone[j].at = writer.sharedStrings[str]
                /\ Region(dDone[j].at + 1, dDone[j].end)
                      = PutUVarInt(Len(str)) \o str
                /\ ByteAt(writer.out, dDone[j].at)
                      \in {kStringCode, kSharedStringCode}

\* A call of the writer: the output does not get shorter, the write position
\* ends at the end of the output, and of the bytes written before only one
\* string tag (from kStringCode to kSharedStringCode) and, in writeKey, the
\* two bytes of the open dict's next hash slot may differ.
C26_Step ==
    dDone' # dDone =>
        LET call == dDone'[Len(dDone')]
            tag == Changed \ NextSlot
        IN  /\ Len(writer'.out) >= Len(writer.out)
            /\ Len(writer'.out) >= call.end
            /\ writer'.pos = Len(writer'.out)
            /\ call.op \notin {"writeString", "writeKey"} => Changed = {}
            /\ call.op = "writeString" => Changed \cap NextSlot = {}
            /\ call.op = "writeKey" => NextSlot # {}
            /\ Cardinality(tag) <= 1
            /\ tag \subseteq TagsOf(call.s)
            /\ \A q \in tag : /\ writer.out[q + 1] = kStringCode
                             /\ writer'.out[q + 1] = kSharedStringCode

\* C26: a seek-back patch of the writer changes only the tag of one earlier
\* string or, in writeKey, the two bytes of one hash slot of the current dict;
\* the output never gets shorter, the write position returns to the end of
\* the output, and every offset of the shared-string map stays the offset of
\* the tag of its string.
C26_PatchesLeaveTheRest == []C26_Inv /\ [][C26_Step]_vars

\* In a dict, the key "note" has been written after the value "note": its
\* hash is in the second slot, the value's tag is patched, and the bytes
\* between are as they were.
C26_Witness ==
    /\ ~externStrings.bound
    /\ dValue = VDict(<<StrK, StrNote>>, <<VString(StrNote), VNull>>)
    /\ Len(dDone) = 4 /\ dDone[4].op = "writeKey"
    /\ writer.out = <<kDictCode, 2, hashCode(StrK) % 256, hashCode(StrK) \div 256,
                      hashCode(StrNote) % 256, hashCode(StrNote) \div 256,
                      kStringCode, 1>> \o StrK
                    \o <<kSharedStringCode, 4>> \o StrNote
                    \o <<kSharedStringRefCode, 6>>
    /\ writer.pos = Len(writer.out)
    /\ writer.sharedStrings[StrNote] = 9

\* A deleteDatabase of thread t in which the unlink failed: what it leaves.
C27_Step(t) ==
    /\ pc[t] = "active" /\ pc'[t] = "active"
    /\ last'.t = t /\ last'.op = "deleteDatabase"
    /\ tx'[t].unlink = "failed"
    => /\ tx'[t].state = -1
       /\ last'.status # FDB_RESULT_SUCCESS
       /\ fileTx'[DbFile(tx[t].db)] = t
       /\ last'.status = Errno => tx'[t].handle = RealHandle(tx[t].db)
       /\ last'.status # Errno => tx'[t].handle = NullHandle

\* C27: when the unlink in deleteDatabase fails, deleteDatabase opens a handle
\* on the same path again, the transaction is left failed (the reopen that
\* succeeded does not make it dirty again), the caller gets an error, and the
\* transaction still holds its file's slot.
C27_FailedUnlinkFailsTransaction == [][\A t \in Threads : C27_Step(t)]_vars

\* deleteDatabase has thrown errno: the transaction is failed, has an open
\* handle again and is still in the slot.
C27_Witness ==
    /\ pc[1] = "active" /\ fileTx[1] = 1
    /\ last.op = "deleteDatabase" /\ last.status = Errno
    /\ tx[1].unlink = "failed" /\ tx[1].state = -1
    /\ tx[1].handle = RealHandle(1)

\* The canonical form of a path string: path 2 is a second spelling (absolute
\* instead of relative) of the file that path 1 names.
Canonical(path) == IF path = 2 THEN 1 ELSE path

\* C28: two Databases opened with path strings that name the same file have
\* the same File, whichever spellings were used, and so share one slot for
\* their transactions.
C28_SpellingsShareFile ==
    \A d, e \in reg.dbs :
        Canonical(d.path) = Canonical(e.path) => d.file = e.file

\* Two Databases on the one file, opened by its two spellings, each with a
\* File of its own.
C28_Witness ==
    \E d, e \in reg.dbs :
        /\ d.path = 1 /\ e.path = 2 /\ Canonical(d.path) = Canonical(e.path)
        /\ d.file # 0 /\ e.file # 0 /\ d.file # e.file
        /\ reg.sFileMap[1] = d.file /\ reg.sFileMap[2] = e.file

\* Thread t is inside the beginTransaction of a second Transaction on the
\* file whose slot its own Transaction holds.
NestedWait(t) ==
    /\ pc[t] \in {"nested_waiting", "nested_woken"}
    /\ fileTx[DbFile(tx[t].db)] = t

\* C29: a thread that begins a second Transaction on the file of its own
\* active Transaction gets out of beginTransaction (with an error): it does
\* not wait for ever for the slot that it holds itself.
C29_NestedBeginReturns ==
    \A t \in Threads : NestedWait(t) ~> ~NestedWait(t)

\* Thread 1 waits in a nested beginTransaction for its own slot.
C29_Witness ==
    /\ pc[1] = "nested_waiting" /\ fileTx[1] = 1 /\ NestedWait(1)
    /\ tx[1].db \in ReadDBs

\* Once a thread waits for its own slot, it does so in every later state.
C29_NestedWaitIsForEver ==
    [][\A t \in Threads : NestedWait(t) => NestedWait(t)']_vars

\* The moves of _state: neutral (0) to dirty (1), neutral or dirty to failed (-1).
StateMoves == {<<0, 1>>, <<0, -1>>, <<1, -1>>}

\* One step of thread t's Transaction: an operation on it, or the commit and
\* rollback of its destructor.
C30_Step(t) ==
    /\ pc[t] = "active" /\ pc'[t] \in {"active", "dtor_end"}
       => /\ tx'[t].state # tx[t].state
             => <<tx[t].state, tx'[t].state>> \in StateMoves
          /\ tx[t].state = -1 => tx'[t].state = -1
    /\ pc[t] = "active" /\ pc'[t] = "active" /\ last' # last
       /\ last'.op \in {"set", "commit", "rollbackTo"}
       /\ last'.status # FDB_RESULT_SUCCESS
       => tx'[t].state = -1
    /\ pc[t] = "active" /\ pc'[t] = "dtor_end" /\ tx[t].state = -1
       => /\ ~tx'[t].committed
          /\ tx'[t].rolledBack
          /\ commits'[DbFile(tx[t].db)] \subseteq commits[DbFile(tx[t].db)]

\* C30: the state of a Transaction only moves neutral -> dirty, neutral ->
\* failed or dirty -> failed; once failed it stays failed through every later
\* operation that succeeds, and the destructor of a failed Transaction does
\* not commit.
C30_FailedStaysFailed == [][\A t \in Threads : C30_Step(t)]_vars

\* The destructor of a Transaction that was failed and whose last operation,
\* a commit, succeeded: it rolled back and did not commit.
C30_Witness ==
    /\ pc[1] = "dtor_end"
    /\ tx[1].entry = -1 /\ tx[1].state = -1
    /\ ~tx[1].committed /\ tx[1].rolledBack
    /\ last.t = 1 /\ last.op = "commit" /\ last.status = FDB_RESULT_SUCCESS

\* The slot of file 1 is empty and a thread is blocked in the wait of
\* beginTransaction.
EmptyWithWaiter == fileTx[1] = NoTx /\ Waiters(1) # {}

\* C31: no wake-up is lost: when every Transaction that has the slot is
\* destroyed in the end, an empty slot with a thread blocked in
\* beginTransaction leads to some thread having the slot.
C31_NoLostWakeUp == EmptyWithWaiter ~> fileTx[1] # NoTx

\* The notified thread's beginTransaction has thrown: the slot is empty, a
\* thread is still blocked, and no thread is on its way out of the wait.
C31_Witness ==
    /\ EmptyWithWaiter
    /\ \A t \in WakeThreads : pc[t] \in {"idle", "waiting"}
    /\ last.op = "begin" /\ last.status = FDB_RESULT_FAIL

\* As long as no beginTransaction throws after its wait, no wake-up is lost.
C31_NoLostWakeUpUnlessBeginThrows ==
    [](last.op = "begin" => last.status = FDB_RESULT_SUCCESS)
        => (EmptyWithWaiter ~> fileTx[1] # NoTx)

\* C32: in every reachable state the handle a Database reads through is an
\* open handle of the backing store: never a closed one, never NULL.
C32_ReadHandleIsOpen == \A d \in DBs : IsOpen(dbHandle[d])

\* Transaction::del(sequence) was called after deleteDatabase: its
\* _db.get(seq) went through the handle that deleteDatabase had closed.
C32_Witness ==
    /\ pc[1] = "active" /\ tx[1].handle = NullHandle
    /\ dbHandle[tx[1].db] = StaleHandle(tx[1].db)
    /\ last.t = 1 /\ last.op = "del"

\* Where no rollbackTo, deleteDatabase or erase is called, the handle a
\* Database reads through is open in every state outside the destructor of a
\* Transaction.
C32_OpenOutsideDestructor ==
    (\A t \in Threads : pc[t] # "dtor_end") => \A d \in DBs : IsOpen(dbHandle[d])

====
